---------------------------- MODULE Spec2Model ----------------------------
(***************************************************************************)
(* SpeechRestAPI (NaturalVoiceSAPIAdapter): the streaming text-to-speech   *)
(* client.  Three threads share one SpeechRestAPI object:                  *)
(*   - the caller thread       (SpeakAsync, Stop, ~SpeechRestAPI),         *)
(*   - the network thread      (AsioThread: OnOpen/OnMessage/OnClose/      *)
(*                              OnFail, and the catch block around run()), *)
(*   - the decode worker       (Mp3Thread).                                *)
(* Strings are sequences of one-character strings; offsets are 0-based as  *)
(* in the C++ source.                                                      *)
(***************************************************************************)
EXTENDS Integers, Sequences, FiniteSets, TLC

(***************************************************************************)
(* Bounds of the model.                                                    *)
(***************************************************************************)
\* SpeakAsync calls and enqueued payloads in the specification of
\* overlapping sessions (Spec)
MaxSessions == 2
MaxPush == 2
\* SpeakAsync calls and enqueued payloads in the specification of the
\* pipeline within a session (SpecPipeline)
Sessions == 1
Payloads == 2
\* number of boundary events dispatched in the Text Locator specification
MaxEvents == 2
\* longest generated markup text in the Text Locator specification
MaxLen == 4

(***************************************************************************)
(* String primitives (std::wstring_view), 0-based.                         *)
(***************************************************************************)
\* std::string::npos
npos == -1

Min(a, b) == IF a < b THEN a ELSE b

\* basic_string_view::find(ch, pos)
FindChar(s, ch, pos) ==
    IF pos = npos \/ pos >= Len(s) THEN npos
    ELSE LET hits == {i \in pos..(Len(s) - 1) : s[i + 1] = ch}
         IN IF hits = {} THEN npos
            ELSE CHOOSE i \in hits : \A j \in hits : i <= j

\* basic_string_view::find(str, pos)
FindStr(s, w, pos) ==
    IF pos = npos \/ pos > Len(s) THEN npos
    ELSE LET hits == {i \in pos..(Len(s) - Len(w)) :
                         \A k \in 1..Len(w) : s[i + k] = w[k]}
         IN IF hits = {} THEN npos
            ELSE CHOOSE i \in hits : \A j \in hits : i <= j

\* basic_string_view::substr(pos, n)
SubStr(s, pos, n) == SubSeq(s, pos + 1, Min(pos + n, Len(s)))

\* basic_string_view::remove_prefix(n)
RemovePrefix(s, n) == SubSeq(s, n + 1, Len(s))

\* one character of XmlEscape's switch
EscapeChar(ch) ==
    CASE ch = "<"  -> <<"&", "l", "t", ";">>
      [] ch = ">"  -> <<"&", "g", "t", ";">>
      [] ch = "&"  -> <<"&", "a", "m", "p", ";">>
      [] ch = "\"" -> <<"&", "q", "u", "o", "t", ";">>
      [] ch = "'"  -> <<"&", "a", "p", "o", "s", ";">>
      [] OTHER     -> <<ch>>

RECURSIVE XmlEscape(_)
XmlEscape(str) ==
    IF str = <<>> THEN <<>>
    ELSE EscapeChar(Head(str)) \o XmlEscape(Tail(str))

(***************************************************************************)
(* Text Locator: SpeechRestAPI::FindWord.                                  *)
(***************************************************************************)
\* the inner for (;;) loop: TRUE when every '<' before the word has its '>'
RECURSIVE TagsMatchedBroken(_)
TagsMatchedBroken(beforeWord) ==
    LET tagStart == FindChar(beforeWord, "<", 0)
    IN IF tagStart = npos THEN TRUE
       ELSE LET tagEnd == FindChar(beforeWord, ">", tagStart + 1)
            IN IF tagEnd = npos THEN FALSE
               ELSE FALSE

\* a check that looks at the first '<' only
TagsMatchedFirst(beforeWord) ==
    LET tagStart == FindChar(beforeWord, "<", 0)
    IN IF tagStart = npos THEN TRUE
       ELSE FindChar(beforeWord, ">", tagStart + 1) # npos

RECURSIVE TagsMatched(_)
TagsMatched(beforeWord) ==
    LET tagStart == FindChar(beforeWord, "<", 0)
    IN IF tagStart = npos THEN TRUE
       ELSE LET tagEnd == FindChar(beforeWord, ">", tagStart + 1)
            IN IF tagEnd = npos THEN FALSE
               ELSE TagsMatched(RemovePrefix(beforeWord, tagEnd + 1))

\* a loop that keeps its search start in lastPos itself
RECURSIVE FindWordFromShared(_, _, _, _)
FindWordFromShared(ssml, word, startpos, lastPos) ==
    LET wordPos == FindStr(ssml, word, startpos)
    IN IF wordPos = npos
       THEN [pos |-> npos, lastPos |-> startpos]
       ELSE IF TagsMatched(SubStr(ssml, startpos, wordPos - startpos))
            THEN [pos |-> wordPos, lastPos |-> wordPos + Len(word)]
            ELSE FindWordFromShared(ssml, word,
                                    FindChar(ssml, ">", wordPos + Len(word)),
                                    lastPos)

\* the while loop; yields the returned offset and the new value of lastPos
RECURSIVE FindWordFrom(_, _, _, _)
FindWordFrom(ssml, word, startpos, lastPos) ==
    LET wordPos == FindStr(ssml, word, startpos)
    IN IF wordPos = npos
       THEN [pos |-> npos, lastPos |-> lastPos]
       ELSE IF TagsMatched(SubStr(ssml, startpos, wordPos - startpos))
            THEN [pos |-> wordPos, lastPos |-> wordPos + Len(word)]
            ELSE FindWordFrom(ssml, word,
                              FindChar(ssml, ">", wordPos + Len(word)), lastPos)

\* a search that starts at the beginning of the text instead of the cursor
FindWordBroken(ssml, utf8Word, lastPos) ==
    FindWordFrom(ssml, XmlEscape(utf8Word), 0, lastPos)

\* a search that advances the cursor by the length of the unescaped word
FindWordUnescaped(ssml, utf8Word, lastPos) ==
    LET r == FindWordFrom(ssml, XmlEscape(utf8Word), lastPos, lastPos)
    IN IF r.pos = npos THEN r
       ELSE [r EXCEPT !.lastPos = r.pos + Len(utf8Word)]

FindWord(ssml, utf8Word, lastPos) ==
    FindWordFrom(ssml, XmlEscape(utf8Word), lastPos, lastPos)

(***************************************************************************)
(* Wire format.  A text message is a sequence of tokens; "Path:" and the   *)
(* blank-line terminator "\r\n\r\n" are tokens of their own, and the body  *)
(* is the token after the terminator.  A binary payload is a sequence of   *)
(* tokens whose first two are the header-length bytes.                     *)
(***************************************************************************)
\* index (0-based) of the first occurrence of token tok at or after pos
FindToken(text, tok, pos) == FindChar(text, tok, pos)

WordEvent(type, boundary, word) ==
    [Type |-> type,
     Data |-> [Offset |-> 1,
               text |-> [Text |-> word, Length |-> Len(word),
                         BoundaryType |-> boundary]]]

\* nlohmann::json::parse of the bodies the server is modelled to send
JsonParse(body) ==
    CASE body = <<"{Metadata:[Word a]}">> ->
            [ok |-> TRUE,
             json |-> [Metadata |-> <<WordEvent("WordBoundary", "WordBoundary", <<"a">>)>>]]
      [] body = <<"{Metadata:[Punct a]}">> ->
            [ok |-> TRUE,
             json |-> [Metadata |-> <<WordEvent("WordBoundary", "PunctuationBoundary", <<"a">>)>>]]
      [] body = <<"{Metadata:[Sentence a]}">> ->
            [ok |-> TRUE,
             json |-> [Metadata |-> <<WordEvent("SentenceBoundary", "SentenceBoundary", <<"a">>)>>]]
      [] body = <<"{Metadata:[{Type:Viseme}]}">> ->
            [ok |-> TRUE, json |-> [Metadata |-> <<[Type |-> "Viseme"]>>]]
      [] body = <<"{}">> ->
            [ok |-> TRUE, json |-> [Empty |-> <<>>]]
      [] OTHER -> [ok |-> FALSE, json |-> [Empty |-> <<>>]]

\* inbound text messages of the model
TextWord       == <<"X-RequestId:r\r\n", "Path:", "audio.metadata", "\r\n\r\n", "{Metadata:[Word a]}">>
TextSentence   == <<"X-RequestId:r\r\n", "Path:", "audio.metadata", "\r\n\r\n", "{Metadata:[Sentence a]}">>
TextTurnEnd    == <<"X-RequestId:r\r\n", "Path:", "turn.end", "\r\n\r\n", "{}">>
TextTurnStart  == <<"X-RequestId:r\r\n", "Path:", "turn.start", "\r\n\r\n", "{}">>
TextNoPath     == <<"X-RequestId:r\r\n", "audio.metadata", "\r\n\r\n", "{Metadata:[Word a]}">>
TextNoBlank    == <<"X-RequestId:r\r\n", "Path:", "audio.metadata", "\r\n", "{Metadata:[Word a]}">>
TextBadJson    == <<"X-RequestId:r\r\n", "Path:", "audio.metadata", "\r\n\r\n", "{Metadata:[">>
TextNoField    == <<"X-RequestId:r\r\n", "Path:", "audio.metadata", "\r\n\r\n", "{Metadata:[{Type:Viseme}]}">>
TextNoMetadata == <<"X-RequestId:r\r\n", "Path:", "audio.metadata", "\r\n\r\n", "{}">>

MalformedTexts == {TextNoPath, TextNoBlank, TextBadJson, TextNoField, TextNoMetadata}
TextMessages == {TextWord, TextSentence, TextTurnEnd, TextTurnStart} \cup MalformedTexts

\* binary payloads: with the audio marker, and without it
BinaryAudio == <<"len0", "len1", "X-RequestId:r\r\n", "Path:audio\r\n", "mp3">>
BinaryOther == <<"len0", "len1", "X-RequestId:r\r\n", "Path:other\r\n", "mp3">>
BinaryPayloads == {BinaryAudio, BinaryOther}

\* a header stripping that takes every payload for audio
AudioDataBroken(msg) == [found |-> TRUE, data |-> RemovePrefix(msg, 2)]

\* Mp3Thread's header stripping: whether the marker is present (otherwise the
\* payload is skipped by "continue") and the bytes handed to Convert
AudioData(msg) ==
    LET mp3data  == RemovePrefix(msg, 2)
        delimPos == FindToken(mp3data, "Path:audio\r\n", 0)
    IN [found |-> delimPos # npos,
        data  |-> IF delimPos = npos THEN <<>>
                  ELSE RemovePrefix(mp3data, delimPos + 1)]

(***************************************************************************)
(* Boundary-event dispatch: SpeechRestAPI::OnSynthEvent.  st is the state   *)
(* a handler works on: the two cursors, the callbacks invoked so far, and  *)
(* thrown (json.at on a missing key raises out_of_range).                  *)
(***************************************************************************)
AllCallbacks == {"Bookmark", "PunctuationBoundary", "SentenceBoundary",
                 "WordBoundary", "Viseme", "SessionEnd"}

Has(obj, key) == key \in DOMAIN obj

Throw(st) == [st EXCEPT !.thrown = TRUE]

Call(st, name, pos) == [st EXCEPT !.calls = Append(@, <<name, pos>>)]

\* boundary branches that share one cursor
BoundaryCallBroken(st, cbs, ssml, info, name, cursor) ==
    IF name \notin cbs THEN st
    ELSE LET r == FindWord(ssml, info.Text, st[cursor])
         IN Call([st EXCEPT !.word = r.lastPos, !.sentence = r.lastPos],
                 name, r.pos)

\* the WordBoundary / SentenceBoundary branches
BoundaryCall(st, cbs, ssml, info, name, cursor) ==
    IF name \notin cbs THEN st
    ELSE IF ~Has(info, "Text") \/ ~Has(info, "Length") THEN Throw(st)
    ELSE LET r == FindWord(ssml, info.Text, st[cursor])
         IN Call([st EXCEPT ![cursor] = r.lastPos], name, r.pos)

\* a dispatch that takes every object for a word boundary
OnSynthEventBroken(st, cbs, ssml, metadata) ==
    IF "WordBoundary" \in cbs THEN Call(st, "WordBoundary", 0) ELSE st

OnSynthEvent(st, cbs, ssml, metadata) ==
    IF ~Has(metadata, "Type") \/ ~Has(metadata, "Data") THEN Throw(st)
    ELSE LET type == metadata.Type
             data == metadata.Data
         IN IF ~Has(data, "Offset") THEN Throw(st)
            ELSE CASE type = "Viseme" ->
                        IF "Viseme" \notin cbs THEN st
                        ELSE IF ~Has(data, "VisemeId") THEN Throw(st)
                        ELSE Call(st, "Viseme", data.VisemeId)
                   [] type = "WordBoundary" ->
                        IF ~Has(data, "text") THEN Throw(st)
                        ELSE IF ~Has(data.text, "BoundaryType") THEN Throw(st)
                        ELSE IF data.text.BoundaryType = "PunctuationBoundary"
                        THEN BoundaryCall(st, cbs, ssml, data.text,
                                          "PunctuationBoundary", "word")
                        ELSE BoundaryCall(st, cbs, ssml, data.text,
                                          "WordBoundary", "word")
                   [] type = "SentenceBoundary" ->
                        IF ~Has(data, "text") THEN Throw(st)
                        ELSE BoundaryCall(st, cbs, ssml, data.text,
                                          "SentenceBoundary", "sentence")
                   [] type = "SessionEnd" ->
                        IF "SessionEnd" \notin cbs THEN st
                        ELSE Call(st, "SessionEnd", data.Offset)
                   [] type = "Bookmark" ->
                        IF "Bookmark" \notin cbs THEN st
                        ELSE IF ~Has(data, "Bookmark") THEN Throw(st)
                        ELSE Call(st, "Bookmark", data.Bookmark)
                   [] OTHER -> st

\* for (auto& event : json.at("Metadata")) OnSynthEvent(event);
RECURSIVE DispatchEvents(_, _, _, _)
DispatchEvents(st, cbs, ssml, events) ==
    IF events = <<>> \/ st.thrown THEN st
    ELSE DispatchEvents(OnSynthEvent(st, cbs, ssml, Head(events)), cbs, ssml,
                        Tail(events))

\* a text branch in which a malformed message ends the turn
ParseTextBroken(st, cbs, ssml, text) ==
    IF text \in MalformedTexts \/ text = TextTurnEnd
    THEN [kind |-> "turn.end", st |-> st]
    ELSE [kind |-> "ignored", st |-> st]

\* The text branch of OnMessage (lines 303-323) up to, and not including,
\* the turn.end actions: what the message is found to be.
\*   "dropped"  a return before any effect,   "ignored"  an unrecognised path,
\*   "events"   audio.metadata dispatched,    "thrown"   an exception escapes,
\*   "turn.end" the turn.end branch is taken.
ParseText(st, cbs, ssml, text) ==
    LET pathStartPos == FindToken(text, "Path:", 0)
    IN IF pathStartPos = npos THEN [kind |-> "dropped", st |-> st]
       ELSE LET pathEndPos == FindToken(text, "\r\n\r\n", pathStartPos + 1)
            IN IF pathEndPos = npos THEN [kind |-> "dropped", st |-> st]
               ELSE LET path == SubStr(text, pathStartPos + 1,
                                       pathEndPos - (pathStartPos + 1))
                    IN IF path = <<"audio.metadata">>
                       THEN LET p == JsonParse(RemovePrefix(text, pathEndPos + 1))
                            IN IF ~p.ok \/ ~Has(p.json, "Metadata")
                               THEN [kind |-> "thrown", st |-> Throw(st)]
                               ELSE LET r == DispatchEvents(st, cbs, ssml,
                                                             p.json.Metadata)
                                    IN [kind |-> IF r.thrown THEN "thrown"
                                                 ELSE "events",
                                        st |-> r]
                       ELSE IF path = <<"turn.end">>
                       THEN [kind |-> "turn.end", st |-> st]
                       ELSE [kind |-> "ignored", st |-> st]

(***************************************************************************)
(* State.  Connections are numbered by the SpeakAsync call that made them; *)
(* only the latest one can be the tracked connection, so the transport    *)
(* state is kept for the latest one and every handler call for an older   *)
(* one is NetStaleEvent.  The promise member is numbered the same way and  *)
(* future is the shared state of the promise the member holds now.         *)
(***************************************************************************)
VARIABLES
    \* SpeechRestAPI members
    m_ssml,             \* input markup of the latest SpeakAsync
    m_lastWordPos,      \* word cursor
    m_lastSentencePos,  \* sentence cursor
    m_speakPromise,     \* which promise the member holds: 0 the constructed
                        \* one, s the one made by the s-th SpeakAsync
    m_isPromiseSet,     \* std::atomic_flag
    m_connection,       \* 0 = null, c = the connection of the c-th SpeakAsync
    m_mp3Queue,         \* std::queue of payloads
    m_mp3QueueDone,     \* the "no more audio" marker
    m_isStopping,       \* permanent stop
    callbacks,          \* the callbacks that are non-null
    \* shared state of the promise, the transport, the mutex
    future,             \* "pending", "value" or the exception stored
    conState,           \* transport state of the latest connection
    sent,               \* messages sent on the latest connection
    mutexOwner,         \* holder of m_mp3QueueMutex
    \* threads
    callerPc,           \* caller thread
    netPc, netEvt,      \* network thread and the event it is handling
    mp3Pc, mp3Msg,      \* decode worker and the payload it has dequeued
    \* history
    nPushed,            \* payloads given to Mp3QueuePush so far; the n-th has id n
    decoded,            \* payloads passed to Convert, in order
    mp3Decoder,         \* connections whose payloads the worker's current
                        \* decoder instance has been fed
    discarded,          \* ids removed from the queue by Stop
    stopped,            \* Stop has cleared the queue at least once
    stopPending,        \* Stop did so in this session with the handle unresolved
    markerNet,          \* this session's connection has set the marker
    failedEc,           \* this session's connection failed with an error code
    winners,            \* calls of this session that won test_and_set
    calls               \* callback invocations <<callback, argument>>, in order

VARIABLES
    \* voice token enumerator (VoiceTokenEnumerator.cpp)
    registry,           \* values under HKCU\...\Enumerator read by FinalConstruct
    sources,            \* what each voice source yields when it is enumerated
    s_pCachedEnum,      \* <<>> = nullptr, <<e>> = the cached enumerator e
    s_isCacheTaskScheduled,
    tasks,              \* expiry tasks given to g_taskScheduler and not yet run
    m_pEnum,            \* enumerator of the object constructed last
    hr,                 \* result of the FinalConstruct called last
    logged,             \* sources whose failure that call logged
    enumerated,         \* sources that call enumerated
    nullReleased,       \* an expiry task has called Release through nullptr
    host,               \* "running", or "crashed" by that call
    \* installer dialog (Installer.cpp)
    dlgPc,              \* "created" before WM_INITDIALOG, then "shown"
    regAllLanguages,    \* EdgeVoiceAllLanguages under HKCU\...\Enumerator
    hasConverters,      \* the universal phoneme converters are registered
    s_allLanguages,
    commands,           \* the radio-button commands handled so far
    \* GetInstalledPath (Installer.cpp)
    cchMax,             \* length of the caller's buffer in WCHARs
    regInprocServer32,  \* the InprocServer32 key and the size of its value
    installedPath       \* what the call did

vars == <<m_ssml, m_lastWordPos, m_lastSentencePos, m_speakPromise,
          m_isPromiseSet, m_connection, m_mp3Queue, m_mp3QueueDone,
          m_isStopping, callbacks, future, conState, sent, mutexOwner,
          callerPc, netPc, netEvt, mp3Pc, mp3Msg, nPushed,
          decoded, mp3Decoder, discarded, stopped, stopPending, markerNet,
          failedEc,
          winners, calls,
          registry, sources, s_pCachedEnum, s_isCacheTaskScheduled, tasks,
          m_pEnum, hr, logged, enumerated, nullReleased, host,
          dlgPc, regAllLanguages, hasConverters, s_allLanguages, commands,
          cchMax, regInprocServer32, installedPath>>

session  == <<m_ssml, m_lastWordPos, m_lastSentencePos>>
promise  == <<m_speakPromise, m_isPromiseSet, future, winners>>
pipeline == <<m_mp3Queue, m_mp3QueueDone, mutexOwner>>
mp3      == <<mp3Pc, mp3Msg, decoded, mp3Decoder>>
net      == <<netPc, netEvt>>
history  == <<nPushed, discarded, stopped, stopPending, markerNet, failedEc,
               calls>>
enumerator == <<registry, sources, s_pCachedEnum, s_isCacheTaskScheduled,
                tasks, m_pEnum, hr, logged, enumerated, nullReleased, host>>
dialog == <<dlgPc, regAllLanguages, hasConverters, s_allLanguages, commands>>
pathQuery == <<cchMax, regInprocServer32, installedPath>>
\* everything that is not a member or a thread of SpeechRestAPI
outside == <<enumerator, dialog, pathQuery>>

NoMsg == [id |-> 0, con |-> 0, bytes |-> <<>>]
NoEvt == [con |-> 0, ec |-> FALSE, ex |-> "none", depth |-> 0, payload |-> NoMsg]

\* markup texts given to SpeakAsync in the session specifications
SsmlInputs == {<<"a", "<", "a", ">", "a">>}

(***************************************************************************)
(* Start of the process for the voice token enumerator and the installer.  *)
(***************************************************************************)
\* nullptr, and a pointer to the object e
Null == <<>>
Ptr(e) == <<e>>

\* the values FinalConstruct reads with no Enumerator key: all defaults
DefaultRegistry ==
    [Disable |-> FALSE, NoNarratorVoices |-> FALSE, NoEdgeVoices |-> FALSE,
     NoAzureVoices |-> FALSE, EdgeVoicesOverrideAzureVoices |-> FALSE,
     AzureVoiceKey |-> FALSE]

\* a source that yields its voices without failing
Yields(voices) == [got |-> {voices[i] : i \in 1..Len(voices)}, fail |-> "none"]

\* voice names of the two local sources and ShortNames of the two online
\* lists, in the order they are enumerated; "n1" and "v1" are in both
FolderVoices == <<"n1">>
InstalledVoices == <<"n1", "n2">>
EdgeVoices == <<"v1", "v2">>
AzureVoices == <<"v1", "v3">>

AllSucceed ==
    [Folder |-> Yields(FolderVoices), Local |-> Yields(InstalledVoices),
     Edge |-> Yields(EdgeVoices), Azure |-> Yields(AzureVoices)]

\* statics of VoiceTokenEnumerator.cpp, lines 456-459, and no call made yet
EnumeratorStart ==
    /\ s_pCachedEnum = Null
    /\ s_isCacheTaskScheduled = FALSE
    /\ tasks = 0
    /\ m_pEnum = Null
    /\ hr = "none"
    /\ logged = {}
    /\ enumerated = {}
    /\ nullReleased = FALSE
    /\ host = "running"

\* registry values: a missing key and a missing value
NoKey == -2
NoValue == -1

\* Installer.cpp line 125, and the dialog not yet initialised
DialogStart ==
    /\ dlgPc = "created"
    /\ s_allLanguages = FALSE
    /\ commands = <<>>

\* a DWORD as its two 16-bit halves
DWord(h, l) == [hi |-> h, lo |-> l]
Zero == DWord(0, 0)
\* MAX_PATH, the length both callers of GetInstalledPath pass
MaxPath == DWord(0, 260)

\* the InprocServer32 key of the adapter's CLSID in the 32-bit (FALSE) and
\* the 64-bit (TRUE) registry view: whether it opens and the size in bytes
\* of its default value; here the adapter is not registered
NoInprocServer32 == [is64Bit \in BOOLEAN |-> [opens |-> FALSE, size |-> Zero]]

\* GetInstalledPath not called: whether it queried the value, its result,
\* the byte count it gave to the query, the bytes the query stored in path
\* and the index of the terminator it wrote
NoCall == [called |-> FALSE, queried |-> FALSE, ret |-> FALSE, cb |-> Zero,
           written |-> Zero, terminated |-> FALSE, terminator |-> Zero]

\* the state outside SpeechRestAPI in the specifications of SpeechRestAPI
OutsideIdle ==
    /\ registry = DefaultRegistry
    /\ sources = AllSucceed
    /\ EnumeratorStart
    /\ DialogStart
    /\ regAllLanguages = NoKey
    /\ hasConverters = TRUE
    /\ cchMax = MaxPath
    /\ regInprocServer32 = NoInprocServer32
    /\ installedPath = NoCall

\* SpeechRestAPI::SpeechRestAPI: both threads started, nothing tracked
SpeechRestAPIInit(cbs, ssml) ==
    /\ m_ssml = ssml
    /\ m_lastWordPos = 0
    /\ m_lastSentencePos = 0
    /\ m_speakPromise = 0
    /\ m_isPromiseSet = FALSE
    /\ m_connection = 0
    /\ m_mp3Queue = <<>>
    /\ m_mp3QueueDone = FALSE
    /\ m_isStopping = FALSE
    /\ callbacks = cbs
    /\ future = "pending"
    /\ conState = "none"
    /\ sent = <<>>
    /\ mutexOwner = "none"
    /\ callerPc = "idle"
    /\ netPc = "idle"
    /\ netEvt = NoEvt
    /\ mp3Pc = "lock"
    /\ mp3Msg = NoMsg
    /\ nPushed = 0
    /\ decoded = <<>>
    /\ mp3Decoder = {}
    /\ discarded = {}
    /\ stopped = FALSE
    /\ stopPending = FALSE
    /\ markerNet = FALSE
    /\ failedEc = FALSE
    /\ winners = 0
    /\ calls = <<>>

InitWith(cbs, ssml) == SpeechRestAPIInit(cbs, ssml) /\ OutsideIdle

Init == InitWith({"WordBoundary", "SentenceBoundary"}, <<>>)

\* std::terminate has not been called
Alive == mp3Pc # "terminated" /\ netPc # "terminated"

(***************************************************************************)
(* Promise and flag.                                                       *)
(***************************************************************************)
\* value of the flag after std::atomic_flag::test_and_set
TestAndSetBroken(flag) == flag

TestAndSet(flag) == TRUE

\* a lock that is granted whoever holds the mutex
MutexFreeBroken(owner) == TRUE

\* std::lock_guard / std::unique_lock on m_mp3QueueMutex: the constructor
\* returns only when no other thread owns the mutex
MutexFree(owner) == owner = "none"

\* a locked block that ends with the mutex still held
UnlockBroken(thread) == thread

\* the end of a locked block ("end lock", line 167): the destructor of the
\* std::unique_lock of the thread releases the mutex
Unlock(thread) == "none"

\* a notification that wakes nobody
NotifyBroken(pc) == pc

\* std::condition_variable::notify_one / notify_all on the worker
Notify(pc) == IF pc = "blocked" THEN "lock" ELSE pc

\* a reset that leaves the handle as it is
ResetBroken(con) == con

\* m_connection.reset() (lines 93, 222, 232, 321): the handle is null
Reset(con) == 0

\* a connection check that accepts every connection
IsCurrentConnectionBroken(c) == TRUE

\* SpeechRestAPI::IsCurrentConnection
IsCurrentConnection(c) == m_connection # 0 /\ m_connection = c

\* the connection made by the latest SpeakAsync that reached connect()
LatestConnection ==
    IF callerPc = "speak_connect" THEN m_speakPromise - 1 ELSE m_speakPromise

(***************************************************************************)
(* Caller thread.                                                          *)
(***************************************************************************)
\* the transport's event loop runs until m_client.stop()
TransportRunning ==
    callerPc \notin {"dtor_flag", "dtor_notify", "dtor_join", "destroyed"}

\* the caller is between two calls; "speak_raised" and "stop_raised" say
\* that its last call ended with an exception
CallerIdle == callerPc \in {"idle", "speak_raised", "stop_raised"}

\* SpeakAsync, lines 54-73: the connection cannot be created (get_connection
\* reports an error and throw_error throws it) or configured; the exception
\* leaves SpeakAsync before any member is written
SpeakAsyncThrow ==
    /\ Alive /\ CallerIdle
    /\ callerPc' = "speak_raised"
    /\ UNCHANGED <<session, promise, m_connection, pipeline, m_isStopping,
                   callbacks, outside, conState, sent, net, mp3, history>>

\* SpeakAsync, lines 75-80: session state reset, fresh promise and future
\* (the old shared state is abandoned)
SpeakAsyncReset(maxSessions) ==
    /\ Alive /\ CallerIdle
    /\ m_speakPromise < maxSessions
    /\ \E ssml \in SsmlInputs : m_ssml' = ssml
    /\ m_lastWordPos' = 0
    /\ m_lastSentencePos' = 0
    /\ future' = "pending"
    /\ m_speakPromise' = m_speakPromise + 1
    /\ m_isPromiseSet' = FALSE
    /\ callerPc' = "speak_connect"
    /\ stopPending' = FALSE /\ markerNet' = FALSE /\ failedEc' = FALSE
    /\ winners' = 0
    /\ UNCHANGED <<m_connection, pipeline, m_isStopping, callbacks, outside, conState,
                   sent, net, mp3, nPushed, discarded, stopped, calls>>

\* SpeakAsync, lines 81-84: the new connection is tracked and connects
SpeakAsyncConnect ==
    /\ Alive /\ callerPc = "speak_connect"
    /\ m_connection' = m_speakPromise
    /\ conState' = "connecting"
    /\ sent' = <<>>
    /\ callerPc' = "idle"
    /\ UNCHANGED <<session, promise, pipeline, m_isStopping, callbacks, outside, net,
                   mp3, history>>

\* the queue after Stop's "m_mp3Queue = {}", line 97
ClearedQueueBroken(q) == q

ClearedQueue(q) == <<>>

\* the marker after Stop's "m_mp3QueueDone = true", line 98
StopMarkerBroken(done) == done

StopMarker(done) == TRUE

\* a close that throws the error instead of storing it
CloseRaisesBroken(ec) == ec

\* Stop, line 92: close(code, reason, ec) stores an error (the connection is
\* not open) in ec and does not throw; Stop ignores ec
CloseRaises(ec) == FALSE

\* Stop, lines 89-94: close and forget the connection
StopClose ==
    /\ Alive /\ CallerIdle
    /\ IF m_connection # 0
       THEN /\ conState' = IF conState = "open" THEN "closing" ELSE conState
            /\ m_connection' = Reset(m_connection)
            /\ callerPc' = IF CloseRaises(conState # "open")
                           THEN "stop_raised" ELSE "stop_lock"
       ELSE /\ callerPc' = "stop_lock"
            /\ UNCHANGED <<conState, m_connection>>
    /\ UNCHANGED <<session, promise, pipeline, m_isStopping, callbacks, outside, sent,
                   net, mp3, history>>

\* Stop, lines 95-100: under the mutex the queue is cleared and marked done,
\* then the worker is notified
StopLock ==
    /\ Alive /\ callerPc = "stop_lock"
    /\ MutexFree(mutexOwner)
    /\ m_mp3Queue' = ClearedQueue(m_mp3Queue)
    /\ m_mp3QueueDone' = StopMarker(m_mp3QueueDone)
    /\ discarded' = discarded \cup
                    ({m_mp3Queue[i].id : i \in 1..Len(m_mp3Queue)}
                         \ {m_mp3Queue'[i].id : i \in 1..Len(m_mp3Queue')})
    /\ stopped' = TRUE
    /\ stopPending' = (stopPending \/ future = "pending")
    /\ mp3Pc' = Notify(mp3Pc)
    /\ callerPc' = "idle"
    /\ UNCHANGED <<session, promise, m_connection, mutexOwner, m_isStopping,
                   callbacks, outside, conState, sent, net, mp3Msg, decoded, mp3Decoder, nPushed,
                   markerNet, failedEc, calls>>

\* ~SpeechRestAPI, line 45: m_client.stop()
DtorStopClient ==
    /\ Alive /\ CallerIdle
    /\ callerPc' = "dtor_flag"
    /\ UNCHANGED <<session, promise, m_connection, pipeline, m_isStopping,
                   callbacks, outside, conState, sent, net, mp3, history>>

\* ~SpeechRestAPI, line 46: m_isStopping = true (no lock taken)
DtorSetStopping ==
    /\ Alive /\ callerPc = "dtor_flag"
    /\ m_isStopping' = TRUE
    /\ callerPc' = "dtor_notify"
    /\ UNCHANGED <<session, promise, m_connection, pipeline, callbacks, outside,
                   conState, sent, net, mp3, history>>

\* ~SpeechRestAPI, line 47: m_mp3ThreadNotifier.notify_all()
DtorNotify ==
    /\ Alive /\ callerPc = "dtor_notify"
    /\ mp3Pc' = Notify(mp3Pc)
    /\ callerPc' = "dtor_join"
    /\ UNCHANGED <<session, promise, m_connection, pipeline, m_isStopping,
                   callbacks, outside, conState, sent, net, mp3Msg, decoded, mp3Decoder,
                   history>>

\* ~SpeechRestAPI, lines 48-49: both joins return
DtorJoin ==
    /\ Alive /\ callerPc = "dtor_join"
    /\ netPc = "exited" /\ mp3Pc = "exited"
    /\ callerPc' = "destroyed"
    /\ UNCHANGED <<session, promise, m_connection, pipeline, m_isStopping,
                   callbacks, outside, conState, sent, net, mp3, history>>

(***************************************************************************)
(* Decode worker: SpeechRestAPI::Mp3Thread.                                *)
(***************************************************************************)
\* m_mp3Queue.front()
QueueFrontBroken(q) == q[Len(q)]

QueueFront(q) == Head(q)

\* m_mp3Queue.pop()
QueuePop(q) == Tail(q)

\* lines 152-167: the lock is taken and the loop condition evaluated; the
\* worker goes on to SpeakComplete, to wait, to return, or dequeues
Mp3Check ==
    /\ Alive /\ mp3Pc = "lock"
    /\ MutexFree(mutexOwner)
    /\ IF ~m_isStopping /\ m_mp3Queue = <<>>
       THEN /\ mutexOwner' = "mp3"
            /\ mp3Pc' = IF m_mp3QueueDone THEN "complete" ELSE "wait"
            /\ UNCHANGED <<m_mp3Queue, mp3Msg>>
       ELSE IF m_isStopping
       THEN /\ mp3Pc' = "exited"
            /\ UNCHANGED <<mutexOwner, m_mp3Queue, mp3Msg>>
       ELSE /\ mp3Msg' = QueueFront(m_mp3Queue)
            /\ m_mp3Queue' = QueuePop(m_mp3Queue)
            /\ mp3Pc' = "decode"
            /\ mutexOwner' = Unlock("mp3")
    /\ UNCHANGED <<session, promise, m_connection, m_mp3QueueDone,
                   m_isStopping, callbacks, outside, conState, sent, callerPc, net,
                   decoded, mp3Decoder, history>>

\* what the worker does after SpeakComplete returned: the decoder is
\* re-created, the marker consumed (lines 158-159), then on to wait
Mp3AfterComplete ==
    /\ mp3Decoder' = {}
    /\ m_mp3QueueDone' = FALSE
    /\ mp3Pc' = "wait"
    /\ UNCHANGED mutexOwner

\* SpeakComplete, line 208, called at line 157 with the mutex held
Mp3SpeakCompleteTest ==
    /\ Alive /\ mp3Pc = "complete"
    /\ m_isPromiseSet' = TestAndSet(m_isPromiseSet)
    /\ IF ~m_isPromiseSet
       THEN /\ mp3Pc' = "complete_set"
            /\ winners' = Min(winners + 1, 2)
            /\ UNCHANGED <<m_mp3QueueDone, mutexOwner, mp3Decoder>>
       ELSE /\ Mp3AfterComplete
            /\ UNCHANGED winners
    /\ UNCHANGED <<session, m_speakPromise, future, m_connection, m_mp3Queue,
                   m_isStopping, callbacks, outside, conState, sent, callerPc, net,
                   mp3Msg, decoded, history>>

\* SpeakComplete, line 209: set_value; it throws future_error when the
\* shared state is already satisfied, which unlocks and lands in the catch
Mp3SpeakCompleteSet ==
    /\ Alive /\ mp3Pc = "complete_set"
    /\ IF future = "pending"
       THEN /\ future' = "value"
            /\ Mp3AfterComplete
            /\ UNCHANGED mp3Msg
       ELSE /\ mp3Pc' = "catch"
            /\ mp3Msg' = [NoMsg EXCEPT !.bytes = <<"future_error">>]
            /\ mutexOwner' = "none"
            /\ UNCHANGED <<future, m_mp3QueueDone, mp3Decoder>>
    /\ UNCHANGED <<session, m_speakPromise, m_isPromiseSet, winners,
                   m_connection, m_mp3Queue, m_isStopping, callbacks, outside, conState,
                   sent, callerPc, net, decoded, history>>

\* line 161: wait releases the mutex and blocks until notified
Mp3Wait ==
    /\ Alive /\ mp3Pc = "wait"
    /\ mutexOwner' = "none"
    /\ mp3Pc' = "blocked"
    /\ UNCHANGED <<session, promise, m_connection, m_mp3Queue, m_mp3QueueDone,
                   m_isStopping, callbacks, outside, conState, sent, callerPc, net,
                   mp3Msg, decoded, mp3Decoder, history>>

\* std::condition_variable::wait may return without a notification
Mp3SpuriousWakeup ==
    /\ Alive /\ mp3Pc = "blocked"
    /\ mp3Pc' = "lock"
    /\ UNCHANGED <<session, promise, m_connection, pipeline, m_isStopping,
                   callbacks, outside, conState, sent, callerPc, net, mp3Msg,
                   decoded, mp3Decoder, history>>

\* lines 172-179, without the mutex: header stripped, Convert called; Convert
\* (or the sample sink it calls) may throw
Mp3Decode ==
    /\ Alive /\ mp3Pc = "decode"
    /\ LET a == AudioData(mp3Msg.bytes)
       IN IF ~a.found
          THEN /\ mp3Pc' = "lock"
               /\ mp3Msg' = NoMsg
               /\ UNCHANGED <<decoded, mp3Decoder>>
          ELSE /\ decoded' = Append(decoded, [id |-> mp3Msg.id, con |-> mp3Msg.con,
                                              sess |-> m_speakPromise])
               /\ mp3Decoder' = mp3Decoder \cup {mp3Msg.con}
               /\ \E throws \in BOOLEAN :
                     IF throws
                     THEN /\ mp3Pc' = "catch"
                          /\ mp3Msg' = [NoMsg EXCEPT !.bytes = <<"decode_error">>]
                     ELSE /\ mp3Pc' = "lock"
                          /\ mp3Msg' = NoMsg
    /\ UNCHANGED <<session, promise, m_connection, pipeline, m_isStopping,
                   callbacks, outside, conState, sent, callerPc, net, history>>

\* line 183, SpeakError line 214
Mp3SpeakErrorTest ==
    /\ Alive /\ mp3Pc = "catch"
    /\ m_isPromiseSet' = TestAndSet(m_isPromiseSet)
    /\ IF ~m_isPromiseSet
       THEN /\ mp3Pc' = "catch_set"
            /\ winners' = Min(winners + 1, 2)
            /\ UNCHANGED mp3Msg
       ELSE /\ mp3Pc' = "lock"
            /\ mp3Msg' = NoMsg
            /\ UNCHANGED winners
    /\ UNCHANGED <<session, m_speakPromise, future, m_connection, pipeline,
                   m_isStopping, callbacks, outside, conState, sent, callerPc, net,
                   decoded, mp3Decoder, history>>

\* SpeakError line 215: set_exception; a future_error thrown inside the
\* catch block leaves Mp3Thread, which terminates the process
Mp3SpeakErrorSet ==
    /\ Alive /\ mp3Pc = "catch_set"
    /\ IF future = "pending"
       THEN /\ future' = mp3Msg.bytes[1]
            /\ mp3Pc' = "lock"
       ELSE /\ mp3Pc' = "terminated"
            /\ UNCHANGED future
    /\ mp3Msg' = NoMsg
    /\ UNCHANGED <<session, m_speakPromise, m_isPromiseSet, winners,
                   m_connection, pipeline, m_isStopping, callbacks, outside, conState,
                   sent, callerPc, net, decoded, mp3Decoder, history>>

(***************************************************************************)
(* Network thread: SpeechRestAPI::AsioThread and the handlers it runs.     *)
(***************************************************************************)
\* a speech.config body with the word and sentence flags exchanged
ConfigJsonBroken(cbs) ==
    [metadataOptions |->
        [bookmarkEnabled            |-> "Bookmark" \in cbs,
         punctuationBoundaryEnabled |-> "PunctuationBoundary" \in cbs,
         sentenceBoundaryEnabled    |-> "WordBoundary" \in cbs,
         wordBoundaryEnabled        |-> "SentenceBoundary" \in cbs,
         visemeEnabled              |-> "Viseme" \in cbs],
     outputFormat |-> "audio-24khz-96kbitrate-mono-mp3",
     autoDetection |-> FALSE]

\* the speech.config body built by OnOpen, lines 252-270
ConfigJson(cbs) ==
    [metadataOptions |->
        [bookmarkEnabled            |-> "Bookmark" \in cbs,
         punctuationBoundaryEnabled |-> "PunctuationBoundary" \in cbs,
         sentenceBoundaryEnabled    |-> "SentenceBoundary" \in cbs,
         wordBoundaryEnabled        |-> "WordBoundary" \in cbs,
         visemeEnabled              |-> "Viseme" \in cbs],
     outputFormat |-> "audio-24khz-96kbitrate-mono-mp3",
     autoDetection |-> FALSE]

\* the two messages in the other order
OpenMessagesBroken(cbs, ssml) ==
    <<[path |-> "ssml", body |-> ssml],
      [path |-> "speech.config", json |-> ConfigJson(cbs)]>>

\* the two messages OnOpen sends, lines 274-287
OpenMessages(cbs, ssml) ==
    <<[path |-> "speech.config", json |-> ConfigJson(cbs)],
      [path |-> "ssml", body |-> ssml]>>

\* a handler is called for a connection older than the latest one: it is not
\* the tracked connection, and OnOpen, OnMessage, OnClose and OnFail all
\* return at their first statement (lines 220, 229, 249, 292)
NetStaleEvent ==
    /\ Alive /\ TransportRunning /\ netPc = "idle"
    /\ LatestConnection >= 2
    /\ ~IsCurrentConnection(LatestConnection - 1)
    /\ UNCHANGED vars

\* OnOpen, lines 247-288
NetOnOpen ==
    /\ Alive /\ TransportRunning /\ netPc = "idle"
    /\ conState = "connecting"
    /\ conState' = "open"
    /\ sent' = IF IsCurrentConnection(LatestConnection)
               THEN sent \o OpenMessages(callbacks, m_ssml)
               ELSE sent
    /\ UNCHANGED <<session, promise, m_connection, pipeline, m_isStopping,
                   callbacks, outside, callerPc, net, mp3, history>>

\* OnMessage, lines 290-299: a binary message; the payload is moved to
\* Mp3QueuePush, which then needs the mutex
NetOnMessageBinary(maxPush, bytes) ==
    /\ Alive /\ TransportRunning /\ netPc = "idle"
    /\ conState \in {"open", "closing"}
    /\ nPushed < maxPush
    /\ IF IsCurrentConnection(LatestConnection)
       THEN /\ netPc' = "push"
            /\ netEvt' = [NoEvt EXCEPT !.con = LatestConnection,
                             !.payload = [id |-> nPushed + 1,
                                          con |-> LatestConnection,
                                          bytes |-> bytes]]
            /\ nPushed' = nPushed + 1
       ELSE UNCHANGED <<net, nPushed>>
    /\ UNCHANGED <<session, promise, m_connection, pipeline, m_isStopping,
                   callbacks, outside, conState, sent, callerPc, mp3, discarded,
                   stopped, stopPending, markerNet, failedEc, calls>>

\* Mp3QueuePush, lines 188-195
NetMp3QueuePush ==
    /\ Alive /\ netPc = "push"
    /\ MutexFree(mutexOwner)
    /\ m_mp3Queue' = Append(m_mp3Queue, netEvt.payload)
    /\ mp3Pc' = Notify(mp3Pc)
    /\ netPc' = "idle"
    /\ netEvt' = NoEvt
    /\ UNCHANGED <<session, promise, m_connection, m_mp3QueueDone, mutexOwner,
                   m_isStopping, callbacks, outside, conState, sent, callerPc, mp3Msg,
                   decoded, mp3Decoder, history>>

\* OnMessage, lines 300-324: a text message.  An exception that leaves the
\* handler is caught at line 132 and passed to SpeakError.
NetOnMessageText(text) ==
    /\ Alive /\ TransportRunning /\ netPc = "idle"
    /\ conState \in {"open", "closing"}
    /\ IF ~IsCurrentConnection(LatestConnection)
       THEN UNCHANGED <<session, m_connection, conState, net, calls>>
       ELSE LET r == ParseText([word |-> m_lastWordPos,
                                sentence |-> m_lastSentencePos,
                                calls |-> <<>>, thrown |-> FALSE],
                               callbacks, m_ssml, text)
            IN /\ m_lastWordPos' = r.st.word
               /\ m_lastSentencePos' = r.st.sentence
               /\ calls' = calls \o r.st.calls
               /\ UNCHANGED m_ssml
               /\ IF r.kind = "thrown"
                  THEN /\ netPc' = "catch"
                       /\ netEvt' = [NoEvt EXCEPT !.con = LatestConnection,
                                                  !.ex = "handler_error",
                                                  !.depth = 2]
                       /\ UNCHANGED <<m_connection, conState>>
                  ELSE IF r.kind = "turn.end"
                  THEN /\ conState' = "closing"
                       /\ m_connection' = Reset(m_connection)
                       /\ netPc' = "done"
                       /\ netEvt' = [NoEvt EXCEPT !.con = LatestConnection]
                  ELSE UNCHANGED <<m_connection, conState, net>>
    /\ UNCHANGED <<promise, pipeline, m_isStopping, callbacks, outside, sent, callerPc,
                   mp3, nPushed, discarded, stopped, stopPending, markerNet,
                   failedEc>>

\* OnClose, lines 218-225
NetOnClose ==
    /\ Alive /\ TransportRunning /\ netPc = "idle"
    /\ conState \in {"open", "closing"}
    /\ conState' = "closed"
    /\ IF IsCurrentConnection(LatestConnection)
       THEN /\ m_connection' = Reset(m_connection)
            /\ netPc' = "done"
            /\ netEvt' = [NoEvt EXCEPT !.con = LatestConnection]
       ELSE UNCHANGED <<m_connection, net>>
    /\ UNCHANGED <<session, promise, pipeline, m_isStopping, callbacks, outside, sent,
                   callerPc, mp3, history>>

\* OnFail, lines 227-233; ec says whether get_ec() holds a genuine error
NetOnFail(ec) ==
    /\ Alive /\ TransportRunning /\ netPc = "idle"
    /\ conState = "connecting"
    /\ conState' = "failed"
    /\ IF IsCurrentConnection(LatestConnection)
       THEN /\ m_connection' = Reset(m_connection)
            /\ netPc' = "done"
            /\ netEvt' = [NoEvt EXCEPT !.con = LatestConnection, !.ec = ec]
            /\ failedEc' = (failedEc \/ (ec /\ LatestConnection = m_speakPromise))
       ELSE UNCHANGED <<m_connection, net, failedEc>>
    /\ UNCHANGED <<session, promise, pipeline, m_isStopping, callbacks, outside, sent,
                   callerPc, mp3, nPushed, discarded, stopped, stopPending,
                   markerNet, calls>>

\* a throw_error that throws whatever the code is
ThrowErrorBroken(ec) == TRUE

\* asio::detail::throw_error(ec), line 238: throws only if ec is an error
ThrowError(ec) == ec

\* a Mp3QueueDone that leaves the marker as it is
QueueDoneMarkerBroken(done) == done

\* the marker after Mp3QueueDone's "m_mp3QueueDone = true", line 201
QueueDoneMarker(done) == TRUE

\* Mp3QueueDone, lines 197-204, as called by OnClose, OnFail and turn.end;
\* OnFail then goes on to lines 235-243
NetMp3QueueDone ==
    /\ Alive /\ netPc = "done"
    /\ MutexFree(mutexOwner)
    /\ m_mp3QueueDone' = QueueDoneMarker(m_mp3QueueDone)
    /\ markerNet' = (markerNet \/ netEvt.con = m_speakPromise)
    /\ mp3Pc' = Notify(mp3Pc)
    /\ IF ThrowError(netEvt.ec)
       THEN /\ netPc' = "catch"
            /\ netEvt' = [netEvt EXCEPT !.ex = "connection_error", !.depth = 1]
       ELSE /\ netPc' = "idle"
            /\ netEvt' = NoEvt
    /\ UNCHANGED <<session, promise, m_connection, m_mp3Queue, mutexOwner,
                   m_isStopping, callbacks, outside, conState, sent, callerPc, mp3Msg,
                   decoded, mp3Decoder, nPushed, discarded, stopped,
                   stopPending, failedEc, calls>>

\* SpeakError line 214, from OnFail's catch (depth 1) or AsioThread's (depth 2)
NetSpeakErrorTest ==
    /\ Alive /\ netPc = "catch"
    /\ m_isPromiseSet' = TestAndSet(m_isPromiseSet)
    /\ IF ~m_isPromiseSet
       THEN /\ netPc' = "catch_set"
            /\ winners' = Min(winners + 1, 2)
            /\ UNCHANGED netEvt
       ELSE /\ netPc' = "idle"
            /\ netEvt' = NoEvt
            /\ UNCHANGED winners
    /\ UNCHANGED <<session, m_speakPromise, future, m_connection, pipeline,
                   m_isStopping, callbacks, outside, conState, sent, callerPc, mp3,
                   history>>

\* SpeakError line 215: set_exception.  A future_error thrown from OnFail's
\* catch block leaves the handler and is caught at line 132; thrown from
\* that catch block it leaves AsioThread, which terminates the process.
NetSpeakErrorSet ==
    /\ Alive /\ netPc = "catch_set"
    /\ IF future = "pending"
       THEN /\ future' = netEvt.ex
            /\ netPc' = "idle"
            /\ netEvt' = NoEvt
       ELSE IF netEvt.depth = 1
       THEN /\ netPc' = "catch"
            /\ netEvt' = [netEvt EXCEPT !.ex = "future_error", !.depth = 2]
            /\ UNCHANGED future
       ELSE /\ netPc' = "terminated"
            /\ netEvt' = NoEvt
            /\ UNCHANGED future
    /\ UNCHANGED <<session, m_speakPromise, m_isPromiseSet, winners,
                   m_connection, pipeline, m_isStopping, callbacks, outside, conState,
                   sent, callerPc, mp3, history>>

\* AsioThread, lines 129-130: run() returns after m_client.stop()
NetExit ==
    /\ Alive /\ ~TransportRunning /\ netPc = "idle"
    /\ netPc' = "exited"
    /\ UNCHANGED <<session, promise, m_connection, pipeline, m_isStopping,
                   callbacks, outside, conState, sent, callerPc, netEvt, mp3, history>>

(***************************************************************************)
(* Specifications of the sessions and the audio pipeline.  The caller      *)
(* issues SpeakAsync and Stop, the transport delivers every event, the     *)
(* worker runs.  Text messages are those that move no cursor; teardown is  *)
(* not part of them.                                                       *)
(*   Spec          overlapping sessions, with the events of superseded     *)
(*                 connections                                             *)
(*   SpecPipeline  the pipeline within Sessions sessions                   *)
(***************************************************************************)
PipelineTexts == TextMessages \ {TextWord, TextSentence}

CallerStep(maxSessions) ==
    \/ SpeakAsyncReset(maxSessions)
    \/ SpeakAsyncConnect
    \/ StopClose
    \/ StopLock

Mp3Step ==
    \/ Mp3Check
    \/ Mp3SpeakCompleteTest
    \/ Mp3SpeakCompleteSet
    \/ Mp3Wait
    \/ Mp3SpuriousWakeup
    \/ Mp3Decode
    \/ Mp3SpeakErrorTest
    \/ Mp3SpeakErrorSet

NetStep(maxPush) ==
    \/ NetOnOpen
    \/ \E bytes \in BinaryPayloads : NetOnMessageBinary(maxPush, bytes)
    \/ NetMp3QueuePush
    \/ \E text \in PipelineTexts : NetOnMessageText(text)
    \/ NetOnClose
    \/ \E ec \in BOOLEAN : NetOnFail(ec)
    \/ NetMp3QueueDone
    \/ NetSpeakErrorTest
    \/ NetSpeakErrorSet

Next ==
    \/ CallerStep(MaxSessions)
    \/ Mp3Step
    \/ NetStep(MaxPush)
    \/ NetStaleEvent

Spec == Init /\ [][Next]_vars

NextPipeline ==
    \/ CallerStep(Sessions)
    \/ Mp3Step
    \/ NetStep(Payloads)

SpecPipeline == Init /\ [][NextPipeline]_vars

\* the steps the worker takes by itself whenever it is scheduled; a wait
\* that returns without a notification is not one of them
Mp3Progress ==
    \/ Mp3Check
    \/ Mp3SpeakCompleteTest
    \/ Mp3SpeakCompleteSet
    \/ Mp3Wait
    \/ Mp3Decode
    \/ Mp3SpeakErrorTest
    \/ Mp3SpeakErrorSet

\* the sessions and the pipeline as in SpecPipeline, every binary message
\* being an audio payload (a payload without the audio marker only adds the
\* skip of line 175 to the worker's path)
NextCompletion ==
    \/ CallerStep(Sessions)
    \/ Mp3Step
    \/ NetOnOpen
    \/ NetOnMessageBinary(Payloads, BinaryAudio)
    \/ NetMp3QueuePush
    \/ \E text \in PipelineTexts : NetOnMessageText(text)
    \/ NetOnClose
    \/ \E ec \in BOOLEAN : NetOnFail(ec)
    \/ NetMp3QueueDone
    \/ NetSpeakErrorTest
    \/ NetSpeakErrorSet

\* fair scheduling of the two threads: the worker is scheduled when it can
\* run (Convert returns), and a SpeakError that won the flag on the network
\* thread goes on to set_exception
SpecCompletion ==
    /\ Init /\ [][NextCompletion]_vars
    /\ WF_vars(Mp3Progress)
    /\ WF_vars(NetSpeakErrorSet)

(***************************************************************************)
(* Specification of teardown: the sessions and the pipeline as in          *)
(* SpecPipeline, and the destructor, which may start whenever the caller   *)
(* is between two calls.                                                   *)
(***************************************************************************)
DtorStep ==
    \/ DtorStopClient
    \/ DtorSetStopping
    \/ DtorNotify
    \/ DtorJoin

NextTeardown ==
    \/ CallerStep(Sessions)
    \/ DtorStep
    \/ Mp3Step
    \/ NetStep(Payloads)
    \/ NetExit

SpecTeardown == Init /\ [][NextTeardown]_vars

(***************************************************************************)
(* Specification of the session configuration: every combination of        *)
(* registered callbacks, then sessions that open and close.                *)
(***************************************************************************)
InitConfig == \E cbs \in SUBSET AllCallbacks : InitWith(cbs, <<>>)

NextConfig ==
    \/ CallerStep(Sessions)
    \/ SpeakAsyncThrow
    \/ NetOnOpen
    \/ NetOnClose
    \/ NetMp3QueueDone

SpecConfig == InitConfig /\ [][NextConfig]_vars

(***************************************************************************)
(* Specification of the Text Locator: a markup text is in place, both      *)
(* cursors are zero, and boundary events are dispatched one by one;        *)
(* SpeakAsync may start the next session in between.                       *)
(***************************************************************************)
\* "A <b>word</b> word end"
TagExample == <<"A", " ", "<", "b", ">", "w", "o", "r", "d", "<", "/", "b", ">",
                " ", "w", "o", "r", "d", " ", "e", "n", "d">>

LocatorChars == {"a", "<", ">"}

\* all texts over LocatorChars of length 1..n
RECURSIVE TextsUpTo(_)
TextsUpTo(n) ==
    IF n = 0 THEN {}
    ELSE LET shorter == TextsUpTo(n - 1)
         IN {<<c>> : c \in LocatorChars}
              \cup shorter
              \cup {Append(t, c) : t \in shorter, c \in LocatorChars}

\* "a&lt;a": markup in which the word "<" appears escaped
EscapeExample == <<"a", "&", "l", "t", ";", "a">>

LocatorSsml == TextsUpTo(MaxLen) \cup {TagExample, EscapeExample}

\* word texts as the service reports them (not escaped)
LocatorWords == {<<"a">>, <<"a", "a">>, <<"<">>, <<"w", "o", "r", "d">>}

LocatorEvents ==
    {WordEvent("WordBoundary", b, w) :
        b \in {"WordBoundary", "PunctuationBoundary"}, w \in LocatorWords}
    \cup {WordEvent("SentenceBoundary", "SentenceBoundary", w) :
            w \in LocatorWords}

InitLocator ==
    \E ssml \in LocatorSsml :
        InitWith({"WordBoundary", "PunctuationBoundary", "SentenceBoundary"},
                 ssml)

\* OnSynthEvent, lines 327-368, for one metadata object
SynthEvent(metadata) ==
    /\ Len(calls) < MaxEvents
    /\ LET r == OnSynthEvent([word |-> m_lastWordPos,
                              sentence |-> m_lastSentencePos,
                              calls |-> <<>>, thrown |-> FALSE],
                             callbacks, m_ssml, metadata)
       IN /\ m_lastWordPos' = r.word
          /\ m_lastSentencePos' = r.sentence
          /\ calls' = calls \o r.calls
    /\ UNCHANGED <<m_ssml, promise, m_connection, pipeline, m_isStopping,
                   callbacks, outside, conState, sent, callerPc, net, mp3, nPushed,
                   discarded, stopped, stopPending, markerNet, failedEc>>

NextLocator ==
    \/ \E metadata \in LocatorEvents : SynthEvent(metadata)
    \/ SpeakAsyncReset(Sessions)
    \/ SpeakAsyncConnect

SpecLocator == InitLocator /\ [][NextLocator]_vars

(***************************************************************************)
(* Specification of the boundary-event dispatch: every combination of      *)
(* registered callbacks, a markup text in place, and metadata objects of    *)
(* every type dispatched one by one.                                       *)
(***************************************************************************)
\* "a <a> a"
DispatchSsml == <<"a", " ", "<", "a", ">", " ", "a">>

\* one metadata object of every type the service sends (each with the fields
\* of its type), one with a boundary type that is neither word nor
\* punctuation, and one of a type OnSynthEvent does not know
SynthEvents ==
    {WordEvent("WordBoundary", b, <<"a">>) :
        b \in {"WordBoundary", "PunctuationBoundary", "Other"}}
    \cup {WordEvent("SentenceBoundary", "SentenceBoundary", <<"a">>),
          [Type |-> "Viseme", Data |-> [Offset |-> 1, VisemeId |-> 7]],
          [Type |-> "SessionEnd", Data |-> [Offset |-> 1]],
          [Type |-> "Bookmark", Data |-> [Offset |-> 1, Bookmark |-> "mark"]],
          [Type |-> "SessionStart", Data |-> [Offset |-> 1]]}

InitDispatch == \E cbs \in SUBSET AllCallbacks : InitWith(cbs, DispatchSsml)

NextDispatch == \E metadata \in SynthEvents : SynthEvent(metadata)

SpecDispatch == InitDispatch /\ [][NextDispatch]_vars

(***************************************************************************)
(* Voice token enumerator: CVoiceTokenEnumerator::FinalConstruct and the   *)
(* enumeration functions it calls.  A token is the pair of the source that *)
(* made it and its ID; a TokenMap holds at most one token per ID; an       *)
(* enumerator object is the set of tokens added to it.                     *)
(***************************************************************************)
Names(voices) == {voices[i] : i \in 1..Len(voices)}

\* the names emplaced before a failure in the middle of the loop
Prefixes(voices) == {{voices[i] : i \in 1..k} : k \in 0..(Len(voices) - 1)}

Token(src, name) == [source |-> src, id |-> name]

\* TokenMap::try_emplace ignoring the ID of the other tokens
TryEmplaceBroken(map, src, names) == map \cup {Token(src, n) : n \in names}

\* TokenMap::try_emplace for every name: an ID already in the map keeps its token
TryEmplace(map, src, names) ==
    map \cup {Token(src, n) : n \in {x \in names : \A t \in map : t.id # x}}

\* state of one enumeration: the enumerator builder, the TokenMap in scope,
\* the sources called, those that logged a warning, and std::bad_alloc thrown
EnumStart ==
    [builder |-> {}, map |-> {}, ran |-> {}, logged |-> {}, thrown |-> FALSE]

\* one enumeration function: std::bad_alloc is rethrown, a failure in
\* warned is logged, every other failure is ignored
Enum(s, src, o, warned) ==
    IF s.thrown THEN s
    ELSE [s EXCEPT !.map = TryEmplace(@, src, o.got),
                   !.ran = @ \cup {src},
                   !.logged = @ \cup (IF o.fail \in warned THEN {src} ELSE {}),
                   !.thrown = (o.fail = "bad_alloc")]

\* an enumeration function that lets every failure escape
EnumStrict(s, src, o, warned) ==
    IF s.thrown THEN s
    ELSE [s EXCEPT !.ran = @ \cup {src}, !.thrown = (o.fail # "none")]

\* EnumLocalVoicesInFolder, lines 773-847
EnumLocalVoicesInFolder(s, o) == Enum(s, "Folder", o, {"exception", "reason"})

\* EnumLocalVoices, lines 721-771: winrt::hresult_error is logged unless its
\* code is REGDB_E_CLASSNOTREG
EnumLocalVoices(s, o) ==
    Enum(s, "Local", o, {"exception", "reason", "hresult_error"})

\* an enumeration function for the online lists that lets every failure
\* escape
EnumOnlineVoicesBroken(s, src, o) == EnumStrict(s, src, o, {})

\* EnumOnlineVoices, lines 1057-1110, called by EnumEdgeVoices and
\* EnumAzureVoices
EnumOnlineVoices(s, src, o) == Enum(s, src, o, {"exception"})

\* the loop of pEnumBuilder->AddTokens over the map in scope
AddTokens(s) == IF s.thrown THEN s ELSE [s EXCEPT !.builder = @ \cup s.map]

\* onlineTokens.clear(), and the end of the scope of a map
Clear(s) == IF s.thrown THEN s ELSE [s EXCEPT !.map = {}]

\* FinalConstruct lines 513-557: what is enumerated under the registry
\* values reg when the sources yield src
Enumeration(reg, src) ==
    LET narrator == ~reg.Disable /\ ~reg.NoNarratorVoices
        edge == ~reg.Disable /\ ~reg.NoEdgeVoices
        azure == ~reg.Disable /\ ~reg.NoAzureVoices /\ reg.AzureVoiceKey
        s1 == IF narrator
              THEN Clear(AddTokens(EnumLocalVoices(
                       EnumLocalVoicesInFolder(EnumStart, src.Folder),
                       src.Local)))
              ELSE EnumStart
        s2 == IF edge THEN EnumOnlineVoices(s1, "Edge", src.Edge) ELSE s1
        s3 == IF edge /\ ~reg.EdgeVoicesOverrideAzureVoices
              THEN Clear(AddTokens(s2)) ELSE s2
        s4 == IF azure THEN EnumOnlineVoices(s3, "Azure", src.Azure) ELSE s3
    IN  IF reg.Disable THEN EnumStart ELSE AddTokens(s4)

\* if (s_pCachedEnum) that never takes the cached enumerator
CachedBroken(p) == FALSE

\* if (s_pCachedEnum), line 483
Cached(p) == p # Null

\* the SAPI call of FinalConstruct that fails, if any
Faults == {"none", "CoCreateInstance", "AddTokens", "QueryInterface", "Clone"}

speech == <<session, promise, m_connection, pipeline, m_isStopping, callbacks,
            conState, sent, callerPc, net, mp3, history>>

\* CVoiceTokenEnumerator::FinalConstruct, lines 464-604, under s_cacheMutex;
\* CheckSapiHr throws when the call named by fault fails ("AddTokens": the
\* last such call)
FinalConstruct(fault) ==
    /\ host = "running"
    /\ fault \in Faults
    /\ IF Cached(s_pCachedEnum)
       THEN /\ fault \in {"none", "Clone"}
            /\ IF fault = "Clone"
               THEN hr' = "FAILED" /\ m_pEnum' = Null
               ELSE hr' = "S_OK" /\ m_pEnum' = s_pCachedEnum
            /\ enumerated' = {}
            /\ logged' = {}
            /\ UNCHANGED <<s_pCachedEnum, s_isCacheTaskScheduled, tasks>>
       ELSE LET e == Enumeration(registry, sources)
            IN  IF fault = "CoCreateInstance"
                THEN /\ hr' = "FAILED" /\ m_pEnum' = Null
                     /\ enumerated' = {} /\ logged' = {}
                     /\ UNCHANGED <<s_pCachedEnum, s_isCacheTaskScheduled,
                                    tasks>>
                ELSE /\ enumerated' = e.ran
                     /\ logged' = e.logged
                     /\ IF e.thrown \/ fault = "AddTokens"
                        THEN /\ fault = "AddTokens" => e.builder # {}
                             /\ hr' = IF e.thrown THEN "E_OUTOFMEMORY"
                                      ELSE "FAILED"
                             /\ m_pEnum' = Null
                             /\ UNCHANGED <<s_pCachedEnum,
                                            s_isCacheTaskScheduled, tasks>>
                        ELSE \* lines 559-572
                             /\ s_isCacheTaskScheduled' = TRUE
                             /\ tasks' = IF s_isCacheTaskScheduled THEN tasks
                                         ELSE tasks + 1
                             /\ s_pCachedEnum' = IF fault = "QueryInterface"
                                                 THEN Null ELSE Ptr(e.builder)
                             /\ IF fault = "none"
                                THEN hr' = "S_OK" /\ m_pEnum' = Ptr(e.builder)
                                ELSE hr' = "FAILED" /\ m_pEnum' = Null
    /\ UNCHANGED <<registry, sources, nullReleased, host>>
    /\ UNCHANGED <<speech, dialog, pathQuery>>

\* the task given to g_taskScheduler.StartNewTask, lines 562-568, run once
\* after its delay.  s_pCachedEnum->Release() through nullptr is undefined:
\* the process dies of the access violation, or the call is passed over.
CacheExpiryTask ==
    /\ host = "running"
    /\ tasks > 0
    /\ tasks' = tasks - 1
    /\ IF s_pCachedEnum = Null
       THEN /\ nullReleased' = TRUE
            /\ \/ /\ host' = "crashed"
                  /\ UNCHANGED <<s_pCachedEnum, s_isCacheTaskScheduled>>
               \/ /\ s_pCachedEnum' = Null
                  /\ s_isCacheTaskScheduled' = FALSE
                  /\ UNCHANGED host
       ELSE /\ s_pCachedEnum' = Null
            /\ s_isCacheTaskScheduled' = FALSE
            /\ UNCHANGED <<nullReleased, host>>
    /\ UNCHANGED <<registry, sources, m_pEnum, hr, logged, enumerated>>
    /\ UNCHANGED <<speech, dialog, pathQuery>>

(***************************************************************************)
(* Specification of the enumerator: every combination of the registry      *)
(* values, every way one or more sources fail, constructions and the        *)
(* expiry task in any order.                                                *)
(***************************************************************************)
Registries ==
    [Disable : BOOLEAN, NoNarratorVoices : BOOLEAN, NoEdgeVoices : BOOLEAN,
     NoAzureVoices : BOOLEAN, EdgeVoicesOverrideAzureVoices : BOOLEAN,
     AzureVoiceKey : BOOLEAN]

\* a source yields all its voices, or fails: with an exception after some of
\* them, or before the first with one of the failures in early
Outcomes(voices, early) ==
    {Yields(voices)}
    \cup {[got |-> g, fail |-> "exception"] : g \in Prefixes(voices)}
    \cup {[got |-> {}, fail |-> f] : f \in early}

Worlds ==
    [Folder : Outcomes(FolderVoices, {"reason", "bad_alloc"}),
     Local : Outcomes(InstalledVoices,
                      {"reason", "hresult_error", "REGDB_E_CLASSNOTREG",
                       "bad_alloc"}),
     Edge : Outcomes(EdgeVoices, {"bad_alloc"}),
     Azure : Outcomes(AzureVoices, {"bad_alloc"})]

InitEnumerator ==
    /\ SpeechRestAPIInit({}, <<>>)
    /\ registry \in Registries
    /\ sources \in Worlds
    /\ EnumeratorStart
    /\ DialogStart
    /\ regAllLanguages = NoKey
    /\ hasConverters = TRUE
    /\ cchMax = MaxPath
    /\ regInprocServer32 = NoInprocServer32
    /\ installedPath = NoCall

NextEnumerator ==
    \/ \E fault \in Faults : FinalConstruct(fault)
    \/ CacheExpiryTask

SpecEnumerator == InitEnumerator /\ [][NextEnumerator]_vars

(***************************************************************************)
(* Installer dialog (Installer.cpp): WM_INITDIALOG and the commands of the *)
(* two language radio buttons.  commands records, for WM_INITDIALOG, the   *)
(* value it read and, for every command, the value it passed to            *)
(* SetEnumeratorRegDWord and whether it called CheckPhonemeConverters.     *)
(***************************************************************************)
MaxCommands == 4

\* values EdgeVoiceAllLanguages can have when the dialog opens
RegistryValues == {NoKey, NoValue, 0, 1, 2}

\* RegQueryValueExW into data, preset to 0, lines 161-164
QueryDword(value) == IF value \in {NoKey, NoValue} THEN 0 ELSE value

\* SetEnumeratorRegDWord, lines 231-240: nothing is written when the key
\* cannot be created or the value cannot be set
SetEnumeratorRegDWord(old, value, ok) == IF ok THEN value ELSE old

\* CheckPhonemeConverters, lines 363-390: when a converter key is missing
\* and the user agrees, the converters are added to the registry
CheckPhonemeConverters(has, agreed) == has \/ agreed

\* if (!s_allLanguages) that is always taken
TurningOnBroken(all) == TRUE

\* if (!s_allLanguages), line 443
TurningOn(all) == ~all

\* MainDlgInit, lines 127-185, for the language option (the installation
\* status labels and the two check boxes are not modelled)
MainDlgInit ==
    /\ dlgPc = "created"
    /\ dlgPc' = "shown"
    /\ s_allLanguages' = IF regAllLanguages # NoKey
                         THEN QueryDword(regAllLanguages) # 0
                         ELSE s_allLanguages
    /\ commands' = <<[cmd |-> "WM_INITDIALOG",
                      data |-> QueryDword(regAllLanguages),
                      checked |-> FALSE]>>
    /\ UNCHANGED <<regAllLanguages, hasConverters>>
    /\ UNCHANGED <<speech, enumerator, pathQuery>>

\* MainDlg, WM_COMMAND, case IDC_ALL_LANGS, lines 439-448
AllLangsCommand(ok, agreed) ==
    /\ dlgPc = "shown"
    /\ Len(commands) <= MaxCommands
    /\ regAllLanguages' = SetEnumeratorRegDWord(regAllLanguages, 1, ok)
    /\ IF TurningOn(s_allLanguages)
       THEN /\ s_allLanguages' = TRUE
            /\ hasConverters' = CheckPhonemeConverters(hasConverters, agreed)
            /\ commands' = Append(commands,
                                  [cmd |-> "IDC_ALL_LANGS", data |-> 1,
                                   checked |-> TRUE])
       ELSE /\ commands' = Append(commands,
                                  [cmd |-> "IDC_ALL_LANGS", data |-> 1,
                                   checked |-> FALSE])
            /\ UNCHANGED <<s_allLanguages, hasConverters>>
    /\ UNCHANGED dlgPc
    /\ UNCHANGED <<speech, enumerator, pathQuery>>

\* MainDlg, WM_COMMAND, case IDC_CUR_LANG, lines 449-452
CurLangCommand(ok) ==
    /\ dlgPc = "shown"
    /\ Len(commands) <= MaxCommands
    /\ regAllLanguages' = SetEnumeratorRegDWord(regAllLanguages, 0, ok)
    /\ s_allLanguages' = FALSE
    /\ commands' = Append(commands,
                          [cmd |-> "IDC_CUR_LANG", data |-> 0,
                           checked |-> FALSE])
    /\ UNCHANGED <<dlgPc, hasConverters>>
    /\ UNCHANGED <<speech, enumerator, pathQuery>>

InitInstaller ==
    /\ SpeechRestAPIInit({}, <<>>)
    /\ registry = DefaultRegistry
    /\ sources = AllSucceed
    /\ EnumeratorStart
    /\ DialogStart
    /\ regAllLanguages \in RegistryValues
    /\ hasConverters \in BOOLEAN
    /\ cchMax = MaxPath
    /\ regInprocServer32 = NoInprocServer32
    /\ installedPath = NoCall

NextInstaller ==
    \/ MainDlgInit
    \/ \E ok \in BOOLEAN, agreed \in BOOLEAN : AllLangsCommand(ok, agreed)
    \/ \E ok \in BOOLEAN : CurLangCommand(ok)

SpecInstaller == InitInstaller /\ [][NextInstaller]_vars

(***************************************************************************)
(* GetInstalledPath (Installer.cpp lines 48-70).  DWORD arithmetic is done *)
(* on 16-bit halves, modulo 2^32; sizes that are not DWORDs (the size of   *)
(* the caller's buffer in bytes) have an unbounded upper half.             *)
(***************************************************************************)
Half16 == 65536

\* d * 4 as a DWORD: cchMax * sizeof(DWORD), line 56
Times4(d) ==
    [hi |-> (d.hi * 4 + (d.lo * 4) \div Half16) % Half16,
     lo |-> (d.lo * 4) % Half16]

\* d * 2 without wrapping: the size in bytes of d WCHARs
Times2Wide(d) ==
    [hi |-> d.hi * 2 + (d.lo * 2) \div Half16, lo |-> (d.lo * 2) % Half16]

\* d / 2, line 63
Halved(d) ==
    [hi |-> d.hi \div 2, lo |-> d.lo \div 2 + (d.hi % 2) * (Half16 \div 2)]

\* d - 1 as a DWORD, line 65
Minus1(d) ==
    IF d.lo > 0 THEN [d EXCEPT !.lo = @ - 1]
    ELSE [hi |-> (d.hi + Half16 - 1) % Half16, lo |-> Half16 - 1]

Less(a, b) == a.hi < b.hi \/ (a.hi = b.hi /\ a.lo < b.lo)
LessEq(a, b) == a = b \/ Less(a, b)

\* GetInstalledPath(is64Bit, path, cchMax) on the registry view is64Bit
\* selects; RegQueryValueExW stores the value and its size when the size is
\* at most the byte count it is given, and fails with ERROR_MORE_DATA
\* otherwise
GetInstalledPath(is64Bit) ==
    /\ ~installedPath.called
    /\ LET key == regInprocServer32[is64Bit]
           cb == Times4(cchMax)
           cch == Halved(key.size)
       IN  installedPath' =
               IF ~key.opens
               THEN [NoCall EXCEPT !.called = TRUE]
               ELSE IF ~LessEq(key.size, cb)
               THEN [NoCall EXCEPT !.called = TRUE, !.queried = TRUE,
                                   !.cb = cb]
               ELSE [called |-> TRUE, queried |-> TRUE, ret |-> TRUE,
                     cb |-> cb, written |-> key.size, terminated |-> TRUE,
                     terminator |-> IF ~Less(cch, cchMax) THEN Minus1(cchMax)
                                    ELSE cch]
    /\ UNCHANGED <<cchMax, regInprocServer32>>
    /\ UNCHANGED <<speech, enumerator, dialog>>

\* buffer lengths: 0, 1, 2, MAX_PATH and lengths around 2^30, 2^31 and 2^32
BufferLengths ==
    {Zero, DWord(0, 1), DWord(0, 2), MaxPath, DWord(16383, 65535),
     DWord(16384, 0), DWord(16384, 150), DWord(32768, 0),
     DWord(65535, 65535)}

\* sizes in bytes of the value of the key: empty, a terminator only, and
\* sizes around MAX_PATH * 2 and MAX_PATH * 4
ValueSizes ==
    {DWord(0, n) : n \in {0, 2, 100, 520, 522, 600, 1040, 1042}}

InprocServer32Keys ==
    {[opens |-> FALSE, size |-> Zero]}
    \cup {[opens |-> TRUE, size |-> n] : n \in ValueSizes}

InitInstalledPath ==
    /\ SpeechRestAPIInit({}, <<>>)
    /\ registry = DefaultRegistry
    /\ sources = AllSucceed
    /\ EnumeratorStart
    /\ DialogStart
    /\ regAllLanguages = NoKey
    /\ hasConverters = TRUE
    /\ cchMax \in BufferLengths
    /\ regInprocServer32 \in [BOOLEAN -> InprocServer32Keys]
    /\ installedPath = NoCall

NextInstalledPath == \E is64Bit \in BOOLEAN : GetInstalledPath(is64Bit)

SpecInstalledPath == InitInstalledPath /\ [][NextInstalledPath]_vars

(***************************************************************************)
(* Properties of the completion handle and the pipeline.                   *)
(***************************************************************************)
\* a thread stands between a won test_and_set and its set_value/set_exception
SetPending == mp3Pc \in {"complete_set", "catch_set"} \/ netPc = "catch_set"

\* ids of the payloads in a queue
QueueIds(q) == {q[i].id : i \in 1..Len(q)}

\* the payloads 1..n that carry the audio marker, in order of their ids
RECURSIVE AudioIdsUpTo(_, _)
AudioIdsUpTo(n, isAudio) ==
    IF n = 0 THEN <<>>
    ELSE AudioIdsUpTo(n - 1, isAudio) \o (IF n \in isAudio THEN <<n>> ELSE <<>>)

\* C1: within one session the handle is resolved at most once, whatever the
\* number and interleaving of SpeakComplete and SpeakError calls: at most one
\* call of the session wins test_and_set, once it has set the value or the
\* error the handle is resolved, and no later step changes a resolved handle
\* before the next SpeakAsync.
C1_ResolvedOnce ==
    /\ [](winners <= 1)
    /\ []((winners = 1 /\ ~SetPending) => future # "pending")
    /\ [][(future # "pending" /\ m_speakPromise' = m_speakPromise)
             => future' = future]_vars

\* C1 witness: the handle is resolved with success and a later SpeakError
\* call of the same session is about to test the flag
C1_Witness ==
    /\ m_speakPromise = 1 /\ winners = 1 /\ future = "value"
    /\ netPc = "catch" /\ m_isPromiseSet

\* C2 (as claimed): a handle is resolved with success only after the marker
\* was set for its own session (by its connection, or by Stop during it) and
\* no payload of the session is left in the queue or in the worker's hands.
C2_SuccessAfterOwnMarker ==
    future = "value" =>
        /\ markerNet \/ stopPending
        /\ \A i \in 1..Len(m_mp3Queue) : m_mp3Queue[i].con # m_speakPromise
        /\ mp3Msg.id # 0 => mp3Msg.con # m_speakPromise

\* C3: without Stop the worker takes the payloads off the queue in the order
\* of Mp3QueuePush, none skipped or repeated: the payloads already passed to
\* Convert, then the one in the worker's hands, then the queue are the
\* enqueued payloads 1..nPushed in order (those without the audio marker are
\* taken in turn and not decoded); and when the worker fires the success
\* completion every enqueued payload has been through Convert.
C3_Fifo ==
    ~stopped =>
        LET inQueue  == [i \in 1..Len(m_mp3Queue) |-> m_mp3Queue[i].id]
            inHand   == IF mp3Pc = "decode" THEN <<mp3Msg.id>> ELSE <<>>
            inNet    == IF netPc = "push" THEN 1 ELSE 0
            taken    == nPushed - inNet - Len(m_mp3Queue) - Len(inHand)
            isAudio  == {decoded[i].id : i \in 1..Len(decoded)}
                        \cup {q \in 1..nPushed :
                                \/ \E i \in 1..Len(m_mp3Queue) :
                                      /\ m_mp3Queue[i].id = q
                                      /\ AudioData(m_mp3Queue[i].bytes).found}
        IN /\ inHand \o inQueue
                = [i \in 1..(Len(inHand) + Len(inQueue)) |-> taken + i]
           /\ [i \in 1..Len(decoded) |-> decoded[i].id]
                = AudioIdsUpTo(taken, isAudio)
           /\ mp3Pc \in {"complete", "complete_set"} =>
                 /\ m_mp3Queue = <<>>
                 /\ taken = nPushed - inNet

\* C3 witness: two payloads were enqueued and decoded in order, then the
\* success completion fired, with no Stop
C3_Witness ==
    /\ ~stopped /\ nPushed = 2 /\ Len(decoded) = 2
    /\ decoded[1].id = 1 /\ decoded[2].id = 2
    /\ future = "value" /\ markerNet

\* C4: Stop leaves the queue empty and the marker set when it releases the
\* lock, and no payload that it removed from the queue is passed to the
\* decoder, is in the queue or is in the worker's hands afterwards.
C4_StopDiscards ==
    /\ [](\A id \in discarded :
             /\ \A i \in 1..Len(decoded) : decoded[i].id # id
             /\ id \notin QueueIds(m_mp3Queue)
             /\ mp3Msg.id # id)
    /\ [][(callerPc = "stop_lock" /\ callerPc' = "idle")
             => (m_mp3Queue' = <<>> /\ m_mp3QueueDone')]_vars

\* C4 witness: Stop removed two pending payloads while the worker was
\* decoding, and the worker went on afterwards
C4_Witness ==
    /\ Cardinality(discarded) = 2
    /\ callerPc = "idle" /\ mp3Pc = "blocked" /\ ~m_mp3QueueDone

\* C5 (as claimed): a handle that was unresolved when Stop cleared the queue,
\* in a session whose connection set no marker, is not resolved with success.
C5_StopForcesNothing ==
    (stopPending /\ ~markerNet) => future # "value"

\* C5 (amended): Stop itself resolves nothing, but the marker it sets makes
\* the worker call SpeakComplete: once the worker has consumed the marker of
\* a Stop that found the handle unresolved, the handle is resolved (or the
\* winner of test_and_set is about to resolve it).
C5_StopCompletes ==
    /\ []((stopPending /\ ~m_mp3QueueDone /\ callerPc # "stop_lock")
             => (future # "pending" \/ SetPending))
    /\ [][(callerPc # callerPc' /\ {callerPc, callerPc'} = {"idle", "stop_lock"})
             => (future' = future /\ m_isPromiseSet' = m_isPromiseSet)]_vars

\* C5 witness: Stop found the handle unresolved, no connection event and no
\* error intervened, and the worker resolved the handle with success
C5_Witness ==
    /\ m_speakPromise = 1 /\ stopPending /\ ~markerNet /\ ~failedEc
    /\ future = "value" /\ ~m_mp3QueueDone /\ mp3Pc = "blocked"

\* C6 (as claimed): once the connection of the session has failed with a
\* genuine error code, the session is never reported as successful.
C6_FailureWins ==
    failedEc => future # "value"

\* C7 (as claimed): no malformed text message resolves the completion
\* handle: the handle never holds the exception of a message handler.
C7_MalformedDropped ==
    future # "handler_error"

\* C7 (amended): a text message without Path marker or without blank-line
\* terminator changes nothing.  A body that is not valid JSON, or metadata
\* lacking a required field, leaves the connection, the queue, the marker
\* and the handle as they are while OnMessage runs, but the exception leaves
\* the handler, AsioThread catches it and SpeakError resolves a still
\* unresolved handle with it; the event loop then goes on.
C7_MalformedHandling ==
    /\ [][\A text \in MalformedTexts :
            (NetOnMessageText(text) /\ IsCurrentConnection(LatestConnection))
               => /\ m_connection' = m_connection
                  /\ UNCHANGED <<pipeline, promise, conState>>
                  /\ IF text \in {TextNoPath, TextNoBlank}
                     THEN UNCHANGED vars
                     ELSE /\ netPc' = "catch"
                          /\ netEvt'.ex = "handler_error"]_vars
    /\ [][(netPc = "catch_set" /\ netEvt.ex = "handler_error"
             /\ future = "pending" /\ netPc' # netPc)
            => (future' = "handler_error" /\ netPc' = "idle"
                  /\ UNCHANGED <<m_connection, pipeline, conState>>)]_vars

\* C7 witness: the handle holds the exception of a malformed message, the
\* connection is still tracked, no marker was set, and a later binary
\* message of the same connection is being enqueued
C7_Witness ==
    /\ future = "handler_error" /\ m_connection = 1 /\ ~markerNet
    /\ ~stopped /\ netPc = "push" /\ conState = "open"

\* C8 (as claimed): nothing of the prior session reaches the new one; in
\* particular every payload is decoded during the session whose connection
\* enqueued it.
C8_Independent ==
    \A i \in 1..Len(decoded) : decoded[i].con = decoded[i].sess

\* C9 (as claimed): in "A <b>word</b> word end" the first word-boundary
\* event for "word" is reported at offset 14.
C9_SecondWord ==
    [][(m_ssml = TagExample /\ m_lastWordPos = 0
          /\ SynthEvent(WordEvent("WordBoundary", "WordBoundary",
                                  <<"w", "o", "r", "d">>)))
         => calls'[Len(calls')] = <<"WordBoundary", 14>>]_vars

\* C9 (amended): in "A <b>word</b> word end" FindWord for "word" with cursor
\* 0 returns 5, the offset of the "word" between <b> and </b> (the text
\* before it, "A <b>", has no '<' without a following '>'), and leaves the
\* cursor at 9; the next call for "word" returns 14.
C9_FirstWord ==
    /\ [][(m_ssml = TagExample /\ m_lastWordPos = 0
             /\ SynthEvent(WordEvent("WordBoundary", "WordBoundary",
                                     <<"w", "o", "r", "d">>)))
            => (calls'[Len(calls')] = <<"WordBoundary", 5>>
                  /\ m_lastWordPos' = 9)]_vars
    /\ [][(m_ssml = TagExample /\ m_lastWordPos = 9
             /\ SynthEvent(WordEvent("WordBoundary", "WordBoundary",
                                     <<"w", "o", "r", "d">>)))
            => (calls'[Len(calls')] = <<"WordBoundary", 14>>
                  /\ m_lastWordPos' = 18)]_vars

\* C9 witness: the first word-boundary event for "word" in the example was
\* reported at offset 5
C9_Witness ==
    /\ m_ssml = TagExample /\ m_lastWordPos = 9
    /\ calls = << <<"WordBoundary", 5>> >>

\* C10: the five metadata flags of every speech.config message sent are true
\* exactly for the registered ones of the bookmark, punctuation-boundary,
\* sentence-boundary, word-boundary and viseme callbacks, for every
\* combination of registered callbacks, the session-end callback included.
C10_FlagsMirrorCallbacks ==
    \A i \in 1..Len(sent) :
        sent[i].path = "speech.config" =>
            LET o == sent[i].json.metadataOptions
            IN /\ o.bookmarkEnabled = ("Bookmark" \in callbacks)
               /\ o.punctuationBoundaryEnabled
                    = ("PunctuationBoundary" \in callbacks)
               /\ o.sentenceBoundaryEnabled = ("SentenceBoundary" \in callbacks)
               /\ o.wordBoundaryEnabled = ("WordBoundary" \in callbacks)
               /\ o.visemeEnabled = ("Viseme" \in callbacks)

\* C10 witness: only the word-boundary and session-end callbacks are
\* registered and the speech.config message sent enables wordBoundaryEnabled
\* alone
C10_Witness ==
    /\ callbacks = {"WordBoundary", "SessionEnd"}
    /\ Len(sent) = 2 /\ sent[1].path = "speech.config"
    /\ sent[1].json.metadataOptions
         = [bookmarkEnabled |-> FALSE, punctuationBoundaryEnabled |-> FALSE,
            sentenceBoundaryEnabled |-> FALSE, wordBoundaryEnabled |-> TRUE,
            visemeEnabled |-> FALSE]

C12_WorkerSurvives ==
    [][(mp3Pc = "catch_set" /\ mp3Msg.bytes = <<"decode_error">>)
         => mp3Pc' \in {"catch_set", "lock"}]_vars

\* C13 (as claimed): an error raised by a handler on the network thread is
\* passed to SpeakError and the thread re-enters the event loop: the
\* SpeakError call made in AsioThread's catch block returns, and the thread
\* does not end.
C13_NetThreadSurvives ==
    [][(netPc = "catch_set" /\ netEvt.depth = 2)
         => netPc' \in {"catch_set", "idle"}]_vars

\* C14 (as claimed): the decoder is re-created exactly at session
\* boundaries: a decoder instance is never fed payloads of two sessions,
\* and a payload given to a fresh instance is the first payload of its
\* session to be decoded.
C14_DecoderPerSession ==
    /\ [](Cardinality(mp3Decoder) <= 1)
    /\ [][(decoded' # decoded /\ mp3Decoder = {})
            => \A i \in 1..Len(decoded) :
                  decoded[i].con # decoded'[Len(decoded')].con]_vars

\* C15 (as claimed): the stop signal cannot be missed by the worker: once
\* the destructor has set the stop flag and notified the condition, the
\* worker is not waiting on the condition, so it goes on to see the flag,
\* exits, and the join returns.
C15_StopSignalSeen ==
    (callerPc = "dtor_join" /\ Alive) => mp3Pc # "blocked"

\* C16 (as claimed): a binary message without the marker "Path:audio\r\n"
\* never enters the pipeline queue.
C16_NotEnqueued ==
    \A i \in 1..Len(m_mp3Queue) : m_mp3Queue[i].bytes # BinaryOther

\* C16 (amended): a binary message of the current connection without the
\* marker is enqueued like every other binary message; the worker takes it
\* off the queue in its turn and skips it, so that none of its bytes reach
\* the decoder.
C16_SkippedByWorker ==
    /\ [][(netPc = "push" /\ netEvt.payload.bytes = BinaryOther
             /\ netPc' # "push")
            => m_mp3Queue' = Append(m_mp3Queue, netEvt.payload)]_vars
    /\ [][(mp3Pc = "decode" /\ mp3Msg.bytes = BinaryOther
             /\ mp3Pc' # "decode")
            => (mp3Pc' = "lock" /\ UNCHANGED <<decoded, mp3Decoder, promise>>)]_vars

\* C16 witness: the only payload received had no marker; it was enqueued,
\* the worker has taken it off the queue and nothing was decoded
C16_Witness ==
    /\ nPushed = 1 /\ ~stopped /\ netPc = "idle"
    /\ m_mp3Queue = <<>> /\ mp3Pc = "lock" /\ mp3Msg = NoMsg
    /\ decoded = <<>>

\* C17 (as claimed): neither SpeakAsync nor Stop raises an error into the
\* calling thread.
C17_NeverRaises ==
    callerPc \notin {"speak_raised", "stop_raised"}

\* C17 (amended): Stop never raises into the calling thread, and a failure
\* after the connection was created reaches the caller only through the
\* completion handle; but when the connection object cannot be created or
\* configured, SpeakAsync raises the error into the calling thread, before
\* it has changed any state of the session.
C17_RaisesOnlyFromCreate ==
    /\ [](callerPc # "stop_raised")
    /\ [][(callerPc' = "speak_raised" /\ callerPc # "speak_raised")
            => (/\ callerPc = "idle"
                /\ UNCHANGED <<session, promise, m_connection, pipeline,
                               conState, sent, net, mp3, history>>)]_vars

\* C17 witness: a session is in progress and a second SpeakAsync has raised
\* into the calling thread, leaving the session as it was
C17_Witness ==
    /\ callerPc = "speak_raised" /\ m_speakPromise = 1 /\ m_connection = 1
    /\ conState = "open" /\ future = "pending" /\ Len(sent) = 2

\* C18: within a session neither cursor decreases, whatever boundary events
\* are dispatched; a step that starts the next session (SpeakAsync) sets
\* both to zero, and no other step makes a cursor smaller.
C18_CursorsMonotonic ==
    [][IF m_speakPromise' = m_speakPromise
       THEN /\ m_lastWordPos' >= m_lastWordPos
            /\ m_lastSentencePos' >= m_lastSentencePos
       ELSE /\ m_lastWordPos' = 0
            /\ m_lastSentencePos' = 0]_vars

\* C18 witness: two word-boundary events were located one after the other
\* in the same session, each one moving the word cursor forward
C18_Witness ==
    /\ Len(calls) = 2 /\ m_speakPromise = 0
    /\ calls[1][1] = "WordBoundary" /\ calls[2][1] = "WordBoundary"
    /\ calls[1][2] # npos /\ calls[2][2] > calls[1][2]
    /\ m_lastWordPos > calls[2][2]

\* C19: the queue and the marker are accessed only under the queue mutex,
\* which one thread holds at a time: the worker holds it exactly from
\* taking the lock until it waits or has dequeued; Stop, Mp3QueuePush and
\* Mp3QueueDone run their critical section only when nobody holds it; and
\* every change of the queue or the marker is made either in such a
\* critical section or by the worker while it holds the mutex.
C19_UnderMutex ==
    /\ [](mutexOwner \in {"none", "mp3"})
    /\ [](mutexOwner = "mp3" <=> mp3Pc \in {"complete", "complete_set", "wait"})
    /\ [][(\/ callerPc = "stop_lock" /\ callerPc' # callerPc
           \/ netPc \in {"push", "done"} /\ netPc' # netPc
           \/ mp3Pc = "lock" /\ mp3Pc' # mp3Pc)
            => mutexOwner = "none"]_vars
    /\ [][(m_mp3Queue' # m_mp3Queue \/ m_mp3QueueDone' # m_mp3QueueDone)
            => \/ mutexOwner = "none"
               \/ /\ mutexOwner = "mp3" /\ mp3Pc' # mp3Pc
                  /\ callerPc' = callerPc /\ netPc' = netPc]_vars

\* C19 witness: the worker holds the mutex while Stop and Mp3QueuePush are
\* both waiting for it
C19_Witness ==
    /\ mutexOwner = "mp3" /\ mp3Pc = "complete_set"
    /\ callerPc = "stop_lock" /\ netPc = "push"

\* C20: the connection handle and the two cursors have a single writer, the
\* network thread: while a connection is live (its handlers can run on the
\* network thread at any moment and read the handle in IsCurrentConnection),
\* no step of the caller thread changes the handle or a cursor.  Stop's
\* "m_connection.reset()" and SpeakAsync's assignments are such steps.
C20_SingleWriter ==
    [][(/\ conState \in {"connecting", "open", "closing"}
        /\ \/ m_connection' # m_connection
           \/ m_lastWordPos' # m_lastWordPos
           \/ m_lastSentencePos' # m_lastSentencePos)
         => callerPc' = callerPc]_vars

\* C21: under fair scheduling and without teardown, once the marker is set
\* during session s the handle of session s is eventually resolved (or the
\* caller has replaced the session by the next SpeakAsync).
C21_EventuallyResolved ==
    \A s \in 1..Sessions :
        (m_mp3QueueDone /\ m_speakPromise = s /\ callerPc # "speak_connect")
            ~> (future # "pending" \/ m_speakPromise # s)

\* C21 witness: the connection of the session has set the marker, the handle
\* is unresolved and the worker is still busy with a payload
C21_Witness ==
    /\ m_mp3QueueDone /\ markerNet /\ m_speakPromise = 1
    /\ future = "pending" /\ mp3Pc = "decode" /\ m_mp3Queue # <<>>

\* C22: while the worker is in Convert (decoder and sample sink) it does not
\* hold the queue mutex, so a Mp3QueuePush, a Mp3QueueDone or a Stop that
\* waits for the mutex at that moment (in a running process) can take it and
\* finish.
C22_DecodeUnlocked ==
    mp3Pc = "decode" =>
        /\ mutexOwner = "none"
        /\ (Alive /\ netPc = "push") => ENABLED NetMp3QueuePush
        /\ (Alive /\ netPc = "done") => ENABLED NetMp3QueueDone
        /\ (Alive /\ callerPc = "stop_lock") => ENABLED StopLock

\* C22 witness: the worker is in Convert while Stop and Mp3QueuePush are both
\* about to take the mutex
C22_Witness ==
    /\ mp3Pc = "decode" /\ AudioData(mp3Msg.bytes).found
    /\ netPc = "push" /\ callerPc = "stop_lock"

C23_WitnessStale ==
    conState = "open" /\ m_connection = 0 /\ stopped /\ sent = <<>>

C25_CloseFailEffect ==
    /\ [][(/\ netPc = "idle" /\ m_connection # 0
           /\ m_connection = LatestConnection
           /\ (NetOnClose \/ \E ec \in BOOLEAN : NetOnFail(ec)))
            => (/\ m_connection' = 0 /\ netPc' = "done"
                /\ netEvt'.con = m_connection
                /\ UNCHANGED <<session, m_mp3Queue>>)]_vars
    /\ [][(netPc = "done" /\ netPc' # netPc)
            => (/\ m_mp3QueueDone'
                /\ netPc' = (IF netEvt.ec THEN "catch" ELSE "idle")
                /\ UNCHANGED <<session, m_mp3Queue, m_connection>>)]_vars
    /\ [][(netPc \in {"catch", "catch_set"} /\ netPc' # netPc)
            => UNCHANGED <<session, m_mp3Queue, m_mp3QueueDone,
                           m_connection>>]_vars

\* C25 witness: the tracked connection was closed by the other side while a
\* payload was queued: the handle is cleared, the marker set, the payload
\* still queued
C25_Witness ==
    /\ conState = "closed" /\ ~stopped /\ m_connection = 0 /\ netPc = "idle"
    /\ m_mp3QueueDone /\ markerNet /\ m_mp3Queue # <<>>

\* C26: a close event and a fail event without an error code never call
\* SpeakError: after their Mp3QueueDone the handler returns.  The network
\* thread enters SpeakError only for a fail event with an error code, for an
\* exception that left a message handler, or for the future_error of a
\* second set; and the connection error is stored in a handle only by the
\* SpeakError of a fail event that carried an error code.
C26_OnlyGenuineErrors ==
    /\ [][(netPc = "idle" /\ (NetOnClose \/ NetOnFail(FALSE)))
            => (netPc' \in {"idle", "done"} /\ ~netEvt'.ec)]_vars
    /\ [][(netPc = "done" /\ ~netEvt.ec /\ netPc' # netPc)
            => (netPc' = "idle" /\ UNCHANGED promise)]_vars
    /\ [][(netPc # "catch" /\ netPc' = "catch")
            => \/ netPc = "done" /\ netEvt.ec
                  /\ netEvt'.ex = "connection_error"
               \/ netPc = "idle" /\ netEvt'.ex = "handler_error"
               \/ netPc = "catch_set" /\ netEvt'.ex = "future_error"]_vars
    /\ [][(future # "connection_error" /\ future' = "connection_error")
            => (/\ netPc = "catch_set" /\ netEvt.ec
                /\ netEvt.ex = "connection_error")]_vars

\* C26 witness: the connection failed without an error code, Stop was never
\* called, and the session was completed with success
C26_Witness ==
    /\ conState = "failed" /\ ~failedEc /\ ~stopped /\ markerNet
    /\ m_speakPromise = 1 /\ future = "value"

\* C27: for every metadata object that carries the fields of its type, with
\* any set of registered callbacks and any cursor values, OnSynthEvent
\* invokes exactly the callback selected by the type tag (Viseme; for
\* WordBoundary the punctuation callback if the boundary type is
\* PunctuationBoundary and the word-boundary callback otherwise;
\* SentenceBoundary; SessionEnd; Bookmark) and no other; if that callback is
\* not registered or the type tag is unknown it invokes nothing; and it
\* raises no error.
C27_ExactlySelected ==
    \A m \in SynthEvents :
        LET r   == OnSynthEvent([word |-> m_lastWordPos,
                                 sentence |-> m_lastSentencePos,
                                 calls |-> <<>>, thrown |-> FALSE],
                                callbacks, m_ssml, m)
            sel == CASE m.Type = "Viseme" -> "Viseme"
                     [] m.Type = "WordBoundary" ->
                            IF m.Data.text.BoundaryType = "PunctuationBoundary"
                            THEN "PunctuationBoundary" ELSE "WordBoundary"
                     [] m.Type = "SentenceBoundary" -> "SentenceBoundary"
                     [] m.Type = "SessionEnd" -> "SessionEnd"
                     [] m.Type = "Bookmark" -> "Bookmark"
                     [] OTHER -> "none"
        IN /\ ~r.thrown
           /\ IF sel \in callbacks
              THEN Len(r.calls) = 1 /\ r.calls[1][1] = sel
              ELSE r.calls = <<>>

\* C27 witness: the word-boundary callback is not registered, and a
\* punctuation event and a bookmark event have invoked their callbacks
C27_Witness ==
    /\ "WordBoundary" \notin callbacks /\ Len(calls) >= 2
    /\ calls[1][1] = "PunctuationBoundary" /\ calls[2][1] = "Bookmark"

\* C28: the two cursors are independent.  Whatever the registered callbacks
\* and the cursor values, a WordBoundary object (word or punctuation) leaves
\* the sentence cursor as it is, a SentenceBoundary object leaves the word
\* cursor as it is, and an object of any other type leaves both as they are.
C28_CursorsIndependent ==
    \A m \in SynthEvents :
        LET r == OnSynthEvent([word |-> m_lastWordPos,
                               sentence |-> m_lastSentencePos,
                               calls |-> <<>>, thrown |-> FALSE],
                              callbacks, m_ssml, m)
        IN /\ m.Type = "WordBoundary" => r.sentence = m_lastSentencePos
           /\ m.Type = "SentenceBoundary" => r.word = m_lastWordPos
           /\ m.Type \notin {"WordBoundary", "SentenceBoundary"}
                => (r.word = m_lastWordPos /\ r.sentence = m_lastSentencePos)

\* C28 witness: two word-boundary events have moved the word cursor past the
\* second word, and the sentence cursor is still at the start
C28_Witness ==
    /\ Len(calls) = 2 /\ calls[1][1] = "WordBoundary"
    /\ calls[2][1] = "PunctuationBoundary"
    /\ m_lastWordPos > 1 /\ m_lastSentencePos = 0

\* C29: for every markup text, every word w (escaped by XmlEscape to w')
\* and every cursor value c, when FindWord returns a position p other than
\* npos then p >= c, the markup holds w' at offsets p .. p+|w'|-1, and the
\* cursor is p+|w'| afterwards.
C29_FoundPosition ==
    \A w \in LocatorWords : \A c \in 0..Len(m_ssml) :
        LET r    == FindWord(m_ssml, w, c)
            word == XmlEscape(w)
        IN r.pos # npos =>
              /\ r.pos >= c
              /\ r.pos + Len(word) <= Len(m_ssml)
              /\ \A k \in 1..Len(word) : m_ssml[r.pos + k] = word[k]
              /\ r.lastPos = r.pos + Len(word)

\* C29 witness: in "a&lt;a" the word "<" was found, escaped, at offset 1 and
\* the word cursor stands after it, at 5
C29_Witness ==
    /\ m_ssml = EscapeExample /\ m_lastWordPos = 5
    /\ Len(calls) = 1 /\ calls[1][2] = 1

\* C30: the tag check accepts a text exactly when every '<' in it is
\* followed, in that text, by a '>'; and for every markup text, word and
\* cursor value c, FindWord returns the leftmost occurrence of the escaped
\* word at or after c for which the text from c to the occurrence passes
\* that check (the text from a later search start, the '>' after a rejected
\* occurrence, passes it exactly when the text from c does), and npos,
\* leaving the cursor as it was, when there is no such occurrence.
C30_FirstOutsideTag ==
    /\ \A s \in 0..Len(m_ssml) : \A n \in 0..(Len(m_ssml) - s) :
          LET t == SubStr(m_ssml, s, n)
          IN TagsMatched(t) <=>
                \A i \in 1..Len(t) :
                    t[i] = "<" => \E j \in (i + 1)..Len(t) : t[j] = ">"
    /\ \A w \in LocatorWords : \A c \in 0..Len(m_ssml) :
          LET word == XmlEscape(w)
              r    == FindWord(m_ssml, w, c)
              occ  == {o \in c..(Len(m_ssml) - Len(word)) :
                          \A k \in 1..Len(word) : m_ssml[o + k] = word[k]}
              ok   == {o \in occ :
                          \A i \in (c + 1)..o :
                              m_ssml[i] = "<"
                                  => \E j \in (i + 1)..o : m_ssml[j] = ">"}
          IN IF ok = {}
             THEN r.pos = npos /\ r.lastPos = c
             ELSE r.pos \in ok /\ \A o \in ok : r.pos <= o

\* C30 witness: in "<a>a" the occurrence of "a" inside the tag was rejected
\* and the one after the tag, at offset 3, was returned
C30_Witness ==
    /\ m_ssml = <<"<", "a", ">", "a">> /\ m_lastWordPos = 4
    /\ Len(calls) = 1 /\ calls[1][2] = 3

\* C31 (as claimed): once Stop has cleared the queue and returned, with the
\* handle still null (no later SpeakAsync has connected), no payload is
\* added to the queue: the connection check of OnMessage and the enqueue are
\* not separated by Stop.
C31_NoPushAfterStop ==
    [][(stopped /\ callerPc = "idle" /\ m_connection = 0)
          => Len(m_mp3Queue') <= Len(m_mp3Queue)]_vars

\* C32: the events of one connection set the marker at most once: whenever
\* the network thread is in Mp3QueueDone for the connection of the session
\* (after turn.end, a close or a fail event passed the connection check),
\* that connection has not set the marker before, and its handle is already
\* cleared for the events that follow.
C32_MarkerOncePerConnection ==
    (netPc = "done" /\ netEvt.con = m_speakPromise)
        => (~markerNet /\ m_connection # netEvt.con)

\* C32 witness: turn.end has set the marker, the worker has consumed it and
\* completed the session, and the close event of the connection is still to
\* come
C32_Witness ==
    /\ conState = "closing" /\ ~stopped /\ callerPc = "idle"
    /\ netPc = "idle" /\ markerNet /\ ~m_mp3QueueDone /\ future = "value"

\* C33: for every markup text, word and cursor value c, when FindWord
\* returns npos the cursor is still c, whether the word does not occur at or
\* after c or every occurrence examined was rejected by the tag check.
C33_NotFoundKeepsCursor ==
    \A w \in LocatorWords : \A c \in 0..Len(m_ssml) :
        LET r == FindWord(m_ssml, w, c)
        IN r.pos = npos => r.lastPos = c

\* C33 witness: in "a<a" the first "a" was found at 0; the next search, from
\* cursor 1, rejected the "a" inside the unclosed tag and returned npos, and
\* the word cursor is still 1
C33_Witness ==
    /\ m_ssml = <<"a", "<", "a">> /\ Len(calls) = 2
    /\ calls[1][2] = 0 /\ calls[2][2] = npos
    /\ calls[1][1] = calls[2][1] /\ calls[1][1] # "SentenceBoundary"
    /\ m_lastWordPos = 1 /\ m_lastSentencePos = 0

(***************************************************************************)
(* Properties of the voice token enumerator.                               *)
(***************************************************************************)
\* the sources the registry values reg enable
Enabled(reg) ==
    IF reg.Disable THEN {}
    ELSE (IF reg.NoNarratorVoices THEN {} ELSE {"Folder", "Local"})
         \cup (IF reg.NoEdgeVoices THEN {} ELSE {"Edge"})
         \cup (IF reg.NoAzureVoices \/ ~reg.AzureVoiceKey THEN {}
               ELSE {"Azure"})

\* C34: while a cached enumerator exists a construction enumerates no source,
\* leaves the cache alone and, when it succeeds, returns a clone of the
\* cached enumerator; the cache appears only in a construction that
\* enumerated, always with a pending expiry task, and disappears only in a
\* step of the expiry task; a construction that succeeds with no cache has
\* enumerated every enabled source and has stored what it returns as the
\* new cache.
C34_CacheLifecycle ==
    /\ [](s_pCachedEnum # Null => (tasks = 1 /\ s_isCacheTaskScheduled))
    /\ [][/\ (s_pCachedEnum # Null /\ tasks' = tasks)
               => /\ enumerated' = {}
                  /\ s_pCachedEnum' = s_pCachedEnum
                  /\ hr' = "S_OK" => m_pEnum' = s_pCachedEnum
          /\ (s_pCachedEnum = Null /\ s_pCachedEnum' # Null)
               => (tasks' >= tasks /\ enumerated' = Enabled(registry)
                   /\ hr' \in {"S_OK", "FAILED"})
          /\ (s_pCachedEnum # Null /\ s_pCachedEnum' = Null)
               => (tasks' = tasks - 1 /\ ~s_isCacheTaskScheduled')
          /\ (s_pCachedEnum = Null /\ tasks' >= tasks /\ hr' = "S_OK")
               => /\ enumerated' = Enabled(registry)
                  /\ s_pCachedEnum' # Null
                  /\ m_pEnum' = s_pCachedEnum']_vars

\* C34 witness: with Edge and Azure enabled a construction has returned a
\* clone of the cached enumerator, which holds tokens, without enumerating,
\* and the expiry task is pending
C34_Witness ==
    /\ s_pCachedEnum # Null /\ m_pEnum = s_pCachedEnum /\ hr = "S_OK"
    /\ enumerated = {} /\ tasks = 1
    /\ {"Edge", "Azure"} \subseteq Enabled(registry)
    /\ \E t \in s_pCachedEnum[1] : t.source = "Azure"

\* the source whose tokens share a TokenMap with those of src and are put
\* into it first
SharesMapWith(reg, src) ==
    CASE src = "Local" -> "Folder"
      [] src = "Azure" /\ reg.EdgeVoicesOverrideAzureVoices -> "Edge"
      [] OTHER -> src

\* no enabled source runs out of memory
NoBadAlloc ==
    \A s \in Enabled(registry) : sources[s].fail # "bad_alloc"

\* with no source out of memory the construction called last did not
\* return E_OUTOFMEMORY (and returns "FAILED" only for a failed SAPI call);
\* if it enumerated it has logged exactly the sources that failed, those in
\* quiet excepted; if it returned S_OK its enumerator holds, for every
\* voice of every enabled source that did not fail, a token with the
\* voice's ID, made by that source or by the one sharing its map
IgnoresFailures(quiet) ==
    NoBadAlloc =>
        /\ hr \in {"none", "S_OK", "FAILED"}
        /\ enumerated # {} =>
              /\ enumerated = Enabled(registry)
              /\ logged = {s \in Enabled(registry) :
                             /\ sources[s].fail # "none"
                             /\ <<s, sources[s].fail>> \notin quiet}
        /\ hr = "S_OK" =>
              \A s \in Enabled(registry) :
                  sources[s].fail = "none" =>
                      \A n \in sources[s].got :
                          \E t \in m_pEnum[1] :
                              /\ t.id = n
                              /\ t.source \in {s, SharesMapWith(registry, s)}

WithId(e, id) == {t \in e : t.id = id}

\* C36: after a successful enumerating construction with Edge and Azure
\* enabled and neither list failing: with EdgeVoicesOverrideAzureVoices set
\* every online ID has one token, the Edge one where Edge has the ID; with
\* it unset every Edge voice and every Azure voice has its own token, so an
\* ID in both lists has two.
C36_OverrideRule ==
    (/\ hr = "S_OK" /\ {"Edge", "Azure"} \subseteq enumerated
     /\ sources.Edge.fail = "none" /\ sources.Azure.fail = "none")
        => LET e == m_pEnum[1]
               edge == Names(EdgeVoices)
               azure == Names(AzureVoices)
           IN  IF registry.EdgeVoicesOverrideAzureVoices
               THEN /\ \A id \in edge : WithId(e, id) = {Token("Edge", id)}
                    /\ \A id \in azure \ edge :
                           WithId(e, id) = {Token("Azure", id)}
               ELSE /\ \A id \in edge : Token("Edge", id) \in e
                    /\ \A id \in azure : Token("Azure", id) \in e
                    /\ \A id \in edge \cap azure :
                           WithId(e, id) = {Token("Edge", id),
                                            Token("Azure", id)}

\* C36 witness: with the override set the shared ID "v1" has its Edge token
\* only, next to the Edge token "v2" and the Azure token "v3"
C36_Witness ==
    /\ hr = "S_OK" /\ registry.EdgeVoicesOverrideAzureVoices
    /\ {"Edge", "Azure"} \subseteq enumerated
    /\ sources.Edge.fail = "none" /\ sources.Azure.fail = "none"
    /\ WithId(m_pEnum[1], "v1") = {Token("Edge", "v1")}
    /\ Token("Edge", "v2") \in m_pEnum[1]
    /\ Token("Azure", "v3") \in m_pEnum[1]

\* C36 witness, override unset: the shared ID "v1" has two tokens
C36_WitnessUnset ==
    /\ hr = "S_OK" /\ ~registry.EdgeVoicesOverrideAzureVoices
    /\ WithId(m_pEnum[1], "v1") = {Token("Edge", "v1"), Token("Azure", "v1")}

\* C38: every run of the cache-expiry task finds the cached enumerator
\* pointer non-null, also after a construction that failed between
\* scheduling the task and storing the pointer.
C38_TaskFindsCache == [][tasks' < tasks => s_pCachedEnum # Null]_vars

(***************************************************************************)
(* Properties of the installer.                                            *)
(***************************************************************************)
\* the all-languages option is selected after the j-th entry of commands:
\* WM_INITDIALOG selects it when the value it read is not 0, IDC_ALL_LANGS
\* selects it and IDC_CUR_LANG deselects it
Selected(j) ==
    IF commands[j].cmd = "WM_INITDIALOG" THEN commands[j].data # 0
    ELSE commands[j].cmd = "IDC_ALL_LANGS"

\* C37: in every sequence of IDC_ALL_LANGS and IDC_CUR_LANG commands the
\* phoneme-converter check has run on exactly the IDC_ALL_LANGS commands
\* that arrived with the all-languages option not selected, so never on two
\* IDC_ALL_LANGS commands in a row; every command has passed 1
\* (IDC_ALL_LANGS) or 0 (IDC_CUR_LANG) to the registry write, and the
\* registry value after a command is that value or, when the write failed,
\* the one before.
C37_CheckOnTurningOn ==
    /\ [](/\ \A i \in 2..Len(commands) :
               /\ commands[i].checked <=>
                      (commands[i].cmd = "IDC_ALL_LANGS" /\ ~Selected(i - 1))
               /\ commands[i].data =
                      IF commands[i].cmd = "IDC_ALL_LANGS" THEN 1 ELSE 0
               /\ (i > 2 /\ commands[i].checked) => ~commands[i - 1].checked
          /\ Len(commands) >= 1 => (s_allLanguages <=> Selected(Len(commands))))
    /\ [][Len(commands') > Len(commands) /\ Len(commands) >= 1
             => regAllLanguages' \in
                    {regAllLanguages, commands'[Len(commands')].data}]_vars

\* C37 witness: opened with the option not selected; IDC_ALL_LANGS ran the
\* check, a second IDC_ALL_LANGS did not, and after IDC_CUR_LANG a third
\* IDC_ALL_LANGS ran it again and wrote 1
C37_Witness ==
    /\ Len(commands) = 5
    /\ commands[1].data = 0
    /\ commands[2].cmd = "IDC_ALL_LANGS" /\ commands[2].checked
    /\ commands[3].cmd = "IDC_ALL_LANGS" /\ ~commands[3].checked
    /\ commands[4].cmd = "IDC_CUR_LANG"
    /\ commands[5].cmd = "IDC_ALL_LANGS" /\ commands[5].checked
    /\ regAllLanguages = 1 /\ s_allLanguages

\* C39: for every buffer length cchMax the byte count given to the registry
\* query is at most cchMax * 2, the query stores at most cchMax * 2 bytes
\* in path, and the terminator is written at an index below cchMax.
C39_WithinBuffer ==
    installedPath.queried =>
        /\ LessEq(installedPath.cb, Times2Wide(cchMax))
        /\ LessEq(installedPath.written, Times2Wide(cchMax))
        /\ installedPath.terminated => Less(installedPath.terminator, cchMax)

=============================================================================
